---------------------------- MODULE Spec2Model ----------------------------
(***************************************************************************)
(* A model of tera-data-parser's protocol codec: the schema loader         *)
(* (TeraProtocol.load), the registry (resolveIdentifier), the length       *)
(* estimator (getLength), the encoder (write), the decoder (parse) and the *)
(* byte streams (Readable / Writeable) they run on.                        *)
(*                                                                         *)
(* Conventions.  A JS buffer is a sequence of bytes; JS position p is      *)
(* sequence index p + 1.  A JS string is the sequence of its UTF-16 code   *)
(* units.  A JS object is a function from its keys to its values; a key    *)
(* outside the DOMAIN reads as `undefined'.  A possibly-undefined value is *)
(* carried as [has |-> BOOLEAN, v |-> value].                              *)
(***************************************************************************)
EXTENDS Integers, Sequences, FiniteSets, TLC

(***************************************************************************)
(* Bounds of the model.                                                    *)
(***************************************************************************)
\* the longest array value a record given to write() carries
MaxElems == 2

(***************************************************************************)
(* Small helpers.                                                          *)
(***************************************************************************)
Put(m, k, v) == (k :> v) @@ m

EmptyMap == <<>>

Min2(a, b) == IF a < b THEN a ELSE b

RECURSIVE MaxOf(_)
MaxOf(S) ==
  LET x == CHOOSE y \in S : TRUE
  IN  IF S = {x} THEN x
      ELSE LET m == MaxOf(S \ {x}) IN IF x > m THEN x ELSE m

(***************************************************************************)
(* parseInt(str, 10) on a token without white space, given as the sequence *)
(* of its characters: an optional sign, then the longest prefix of decimal *)
(* digits; NaN when there is no digit.                                     *)
(***************************************************************************)
DigitVal == ("0" :> 0) @@ ("1" :> 1) @@ ("2" :> 2) @@ ("3" :> 3) @@ ("4" :> 4)
            @@ ("5" :> 5) @@ ("6" :> 6) @@ ("7" :> 7) @@ ("8" :> 8) @@ ("9" :> 9)

RECURSIVE DigitsPrefix(_, _, _, _)
DigitsPrefix(cs, i, seen, acc) ==
  IF i > Len(cs) \/ cs[i] \notin DOMAIN DigitVal
  THEN [nan |-> ~seen, v |-> acc]
  ELSE DigitsPrefix(cs, i + 1, TRUE, acc * 10 + DigitVal[cs[i]])

parseInt(cs) ==
  IF cs # <<>> /\ cs[1] = "-"
  THEN LET r == DigitsPrefix(cs, 2, FALSE, 0) IN [nan |-> r.nan, v |-> 0 - r.v]
  ELSE IF cs # <<>> /\ cs[1] = "+"
  THEN DigitsPrefix(cs, 2, FALSE, 0)
  ELSE DigitsPrefix(cs, 1, FALSE, 0)

(***************************************************************************)
(* Schema loader: the definition tree under construction.                  *)
(*                                                                         *)
(* A node is [key, type, meta, fields]: for a group (root, array, object)  *)
(* `key' is group.name, `meta' is group.meta and `fields' the entries      *)
(* pushed so far; a primitive entry has empty meta and fields.  `top' is   *)
(* the path of field indices from the root to the current group, so        *)
(* top.up is the path without its last index.                              *)
(***************************************************************************)
GROUP_TYPES == {"array", "object"}

IsGroupNode(n) == n.type \in GROUP_TYPES \cup {"root"}

NewNode(key, type) == [key |-> key, type |-> type, meta |-> <<>>, fields |-> <<>>]

RECURSIVE NodeAt(_, _)
NodeAt(tree, path) ==
  IF path = <<>> THEN tree ELSE NodeAt(tree.fields[Head(path)], Tail(path))

RECURSIVE ReplaceAt(_, _, _)
ReplaceAt(tree, path, node) ==
  IF path = <<>> THEN node
  ELSE [tree EXCEPT !.fields[Head(path)] = ReplaceAt(@, Tail(path), node)]

Up(path) == SubSeq(path, 1, Len(path) - 1)

\* a table that puts the count of a bytes field first
META_TYPES_countFirst == ("array" :> <<"count", "offset">>)
                         @@ ("bytes" :> <<"count", "offset">>)
                         @@ ("string" :> <<"offset">>)

META_TYPES == ("array" :> <<"count", "offset">>)
              @@ ("bytes" :> <<"offset", "count">>)
              @@ ("string" :> <<"offset">>)

\* the `while (ref.type === 'object')' walk of pushMetaTypes
RECURSIVE MetaRef(_, _, _)
MetaRef(tree, ref, kp) ==
  IF NodeAt(tree, ref).type = "object"
  THEN MetaRef(tree, Up(ref), NodeAt(tree, ref).key \o "." \o kp)
  ELSE [ref |-> ref, kp |-> kp]

MetaEntries(kp, metaTypes) ==
  [i \in 1..Len(metaTypes) |-> NewNode(kp, metaTypes[i])]

\* lines 218-220: ref.meta.push([kp, t]) for each meta type
pushMetaAt(tree, r, type) ==
  ReplaceAt(tree, r.ref,
    [NodeAt(tree, r.ref) EXCEPT !.meta = @ \o MetaEntries(r.kp, META_TYPES[type])])

pushMetaTypes(tree, base, key, type) ==
  IF type \notin DOMAIN META_TYPES THEN tree
  ELSE pushMetaAt(tree, MetaRef(tree, base, key), type)

(***************************************************************************)
(* A stored definition (the result of flatten) is [type, fields] and each  *)
(* of its entries [key, type, sub]: `sub' holds the flattened fields of a  *)
(* group entry, so Array.isArray(type) is IsGroup.                         *)
(***************************************************************************)
IsGroup(e) == e.type \in GROUP_TYPES

Entry(key, type, sub) == [key |-> key, type |-> type, sub |-> sub]

RECURSIVE flattenFields(_, _)
flattenFields(node, implicitMeta) ==
  (IF implicitMeta
   THEN [i \in 1..Len(node.meta) |-> Entry(node.meta[i].key, node.meta[i].type, <<>>)]
   ELSE <<>>)
  \o [i \in 1..Len(node.fields) |->
        LET f == node.fields[i]
        IN  Entry(f.key, f.type,
                  IF IsGroupNode(f) THEN flattenFields(f, implicitMeta) ELSE <<>>)]

\* a flatten that keeps the meta entries whatever the mode
flatten_withMeta(def, implicitMeta) ==
  [type |-> def.type, fields |-> flattenFields(def, TRUE),
   implicit |-> implicitMeta]

\* a stored definition also remembers, for the properties below, whether
\* the loader inserted its meta entries (line 339's implicitMeta)
flatten(def, implicitMeta) ==
  [type |-> def.type, fields |-> flattenFields(def, implicitMeta),
   implicit |-> implicitMeta]

(***************************************************************************)
(* Input files.  A line is given after `replace(/#.*$/, "").trim()' and    *)
(* the regular expression's tokenisation:                                  *)
(*   map line  [ntok, name, code]       ntok = 0 is a blank line, ntok = 2 *)
(*                                      matches /^(\S+)\s+(\S+)$/;         *)
(*   def line  [kind, depth, type, key] kind is "blank", "malformed" or    *)
(*                                      "field" (the expression matched,   *)
(*                                      with `depth' dashes).              *)
(* A file name is [fname, ok, name, ver]: ok says it matches               *)
(* /^(\w+)\.(\d+)\.def$/, ver is the characters of the second group.       *)
(***************************************************************************)
MapLine(name, code) == [ntok |-> 2, name |-> name, code |-> code]
MapBlank == [ntok |-> 0, name |-> "", code |-> <<>>]
MapBad(n) == [ntok |-> n, name |-> "", code |-> <<>>]

DefLine(depth, type, key) == [kind |-> "field", depth |-> depth, type |-> type, key |-> key]
DefBlank == [kind |-> "blank", depth |-> 0, type |-> "", key |-> ""]
DefBad == [kind |-> "malformed", depth |-> 0, type |-> "", key |-> ""]

DefFile(fname, name, ver, lines) ==
  [fname |-> fname, ok |-> TRUE, name |-> name, ver |-> ver, lines |-> lines]
BadFile(fname) ==
  [fname |-> fname, ok |-> FALSE, name |-> "", ver |-> <<>>, lines |-> <<>>]

Warning(kind, file, line) == [w |-> kind, file |-> file, line |-> line]

(***************************************************************************)
(* load, lines 232-254: read map.  `r' is the load in progress:            *)
(* [map, messages, warnings, threw].                                       *)
(***************************************************************************)
\* lines 246-253
setMapping(r, name, code, i) ==
  IF code.nan
  THEN [r EXCEPT !.warnings =
          Append(@, Warning("non-numeric opcode", "protocol.map", i))]
  ELSE [r EXCEPT !.map.name = Put(@, name, code.v),
                 !.map.code = Put(@, code.v, name)]

readMapLine(r, line, i) ==
  IF line.ntok = 0 THEN r
  ELSE IF line.ntok # 2
  THEN [r EXCEPT !.warnings = Append(@, Warning("malformed line", "protocol.map", i))]
  ELSE setMapping(r, line.name, parseInt(line.code), i)

RECURSIVE readMap(_, _, _)
readMap(r, mapData, i) ==
  IF i > Len(mapData) THEN r
  ELSE readMap(readMapLine(r, mapData[i], i), mapData, i + 1)

(***************************************************************************)
(* load, lines 279-335: one line of a definition file.  `d' is the file in *)
(* progress: [tree, top, level, implicitMeta, warnings, threw].            *)
(***************************************************************************)
\* lines 299-319: move deeper (into the last field of `top') or pop up
RECURSIVE popTo(_, _)
popTo(d, depth) ==
  IF depth < d.level
  THEN popTo([d EXCEPT !.top = Up(@), !.level = @ - 1], depth)
  ELSE d

\* lines 301-311: move deeper, into the last field of `top'
moveDeeper(d, depth, fname, i) ==
  LET lvl == d.level + 1
      w   == IF depth # lvl
             THEN Append(d.warnings, Warning("array nesting too deep", fname, i))
             ELSE d.warnings
      cur == NodeAt(d.tree, d.top)
  IN  IF cur.fields = <<>>
      THEN \* top[top.length - 1] is undefined: TypeError
           [d EXCEPT !.level = lvl, !.warnings = w, !.threw = TRUE]
      ELSE [d EXCEPT !.level = lvl, !.warnings = w,
                     !.top = Append(@, Len(cur.fields))]

moveLevel(d, depth, fname, i) ==
  IF depth > d.level THEN moveDeeper(d, depth, fname, i) ELSE popTo(d, depth)

\* lines 294-297
noteExplicitMeta(d, type, fname, i) ==
  IF d.implicitMeta /\ type \in {"count", "offset"}
  THEN [d EXCEPT !.warnings =
          Append(@, Warning("disabling implicit metatypes", fname, i)),
        !.implicitMeta = FALSE]
  ELSE d

\* lines 325-334: append the field to the current level
pushField(tree, top, key, type) ==
  ReplaceAt(tree, top,
    [NodeAt(tree, top) EXCEPT !.fields = Append(@, NewNode(key, type))])

\* lines 321-334; when `top' is a type name (a string, after a move into a
\* scalar field), ref.meta.push or top.push is a TypeError
appendField(d, line) ==
  IF d.threw THEN d
  ELSE IF ~IsGroupNode(NodeAt(d.tree, d.top)) THEN [d EXCEPT !.threw = TRUE]
  ELSE [d EXCEPT !.tree =
          pushField(pushMetaTypes(d.tree, d.top, line.key, line.type),
                    d.top, line.key, line.type)]

readDefLine(d, line, fname, i) ==
  IF d.threw \/ line.kind = "blank" THEN d
  ELSE IF line.kind = "malformed"
  THEN [d EXCEPT !.warnings = Append(@, Warning("malformed line", fname, i))]
  ELSE appendField(moveLevel(noteExplicitMeta(d, line.type, fname, i),
                             line.depth, fname, i),
                   line)

RECURSIVE readDefLines(_, _, _, _)
readDefLines(d, data, fname, i) ==
  IF i > Len(data) THEN d
  ELSE readDefLines(readDefLine(d, data[i], fname, i), data, fname, i + 1)

(***************************************************************************)
(* load, lines 259-343: one file of the protocol directory.                *)
(***************************************************************************)
\* lines 272-277: the empty root definition
NewDefinition(warnings) ==
  [tree |-> NewNode("", "root"), top |-> <<>>, level |-> 0,
   implicitMeta |-> TRUE, warnings |-> warnings, threw |-> FALSE]

\* lines 337-342: store the definition `d' read from `file'
storeDefinition(r, file, version, d) ==
  IF d.threw
  THEN [r EXCEPT !.warnings = d.warnings, !.threw = TRUE]
  ELSE [r EXCEPT
          !.messages = Put(@, file.name,
                           Put(IF file.name \in DOMAIN r.messages
                               THEN r.messages[file.name] ELSE EmptyMap,
                               version, flatten(d.tree, d.implicitMeta))),
          !.warnings = IF file.name \in DOMAIN r.map.name THEN d.warnings
                       ELSE Append(d.warnings,
                              Warning("unmapped message", file.name, 0))]

readDefFile(r, file) ==
  IF r.threw THEN r
  ELSE IF ~file.ok
  THEN [r EXCEPT !.warnings = Append(@, Warning("invalid filename syntax", file.fname, 0))]
  ELSE storeDefinition(r, file, parseInt(file.ver).v,
                       readDefLines(NewDefinition(r.warnings), file.lines,
                                    file.fname, 1))

RECURSIVE readDefs(_, _, _)
readDefs(r, files, i) ==
  IF i > Len(files) THEN r
  ELSE readDefs(readDefFile(r, files[i]), files, i + 1)

(***************************************************************************)
(* load, lines 185-347.  `self' is [map, messages, loaded]; a package is   *)
(* what basePath points to: [hasMap, map, hasDefs, files], hasMap / hasDefs*)
(* telling whether map/protocol.map and the protocol directory can be      *)
(* read (readFileSync / readdirSync throw otherwise).  The result carries  *)
(* the warnings emitted and whether the call threw.                        *)
(***************************************************************************)
Package(hasMap, map, hasDefs, files) ==
  [hasMap |-> hasMap, map |-> map, hasDefs |-> hasDefs, files |-> files]

\* a reset that forgets the schema table
ClearRegistry_keepMessages(self) ==
  [self EXCEPT !.map = [name |-> EmptyMap, code |-> EmptyMap]]

\* lines 192-195: reset map and messages
ClearRegistry(self) ==
  [self EXCEPT !.map = [name |-> EmptyMap, code |-> EmptyMap],
               !.messages = EmptyMap]

\* the call starts with no warning emitted and nothing thrown
Loading(self) ==
  [map |-> self.map, messages |-> self.messages, loaded |-> self.loaded,
   warnings |-> <<>>, threw |-> FALSE]

\* lines 233-254
loadMap(r, pkg) ==
  IF ~pkg.hasMap THEN [r EXCEPT !.threw = TRUE] ELSE readMap(r, pkg.map, 1)

\* lines 257-343
loadDefs(r, pkg) ==
  IF r.threw THEN r
  ELSE IF ~pkg.hasDefs THEN [r EXCEPT !.threw = TRUE]
  ELSE readDefs(r, pkg.files, 1)

\* lines 345-346
loadDone(r) == IF r.threw THEN r ELSE [r EXCEPT !.loaded = TRUE]

load(self, pkg) == loadDone(loadDefs(loadMap(Loading(ClearRegistry(self)), pkg), pkg))

(***************************************************************************)
(* Byte stream, writer side (stream.js, Writeable).  A writer is           *)
(* [buffer, position, err, headers, log]: err is "" until a call throws    *)
(* (then every later call is skipped, as the exception unwinds write);     *)
(* `headers' counts the frame headers written and `log' records what the   *)
(* encoder did, for the properties below.                                  *)
(***************************************************************************)
Writeable(length) ==
  [buffer |-> [i \in 1..length |-> 0], position |-> 0, err |-> "",
   headers |-> 0, log |-> <<>>]

Throw(w, kind) == IF w.err = "" THEN [w EXCEPT !.err = kind] ELSE w

\* the k little-endian bytes of n, n taken modulo 256^k
RECURSIVE BytesLE(_, _)
BytesLE(n, k) ==
  IF k = 0 THEN <<>> ELSE <<n % 256>> \o BytesLE(n \div 256, k - 1)

\* Buffer.write(U)Int<8k>LE(n, position): RangeError unless lo <= n <= hi and
\* the k bytes fit; writes the two's complement of a negative n
WriteIntLE(w, n, k, lo, hi) ==
  IF w.err # "" THEN w
  ELSE IF n < lo \/ n > hi \/ w.position + k > Len(w.buffer)
  THEN Throw(w, "RangeError")
  ELSE LET bs == BytesLE(IF n < 0 THEN n + 256 ^ k ELSE n, k)
       IN  [w EXCEPT !.buffer = [i \in 1..Len(@) |->
                                   IF i > w.position /\ i <= w.position + k
                                   THEN bs[i - w.position] ELSE @[i]],
                     !.position = @ + k]

\* a possibly undefined number writes as NaN, which the Buffer stores as 0
Num(val) == IF val.has THEN val.v ELSE 0

W_seek(w, n) == IF w.err # "" THEN w ELSE [w EXCEPT !.position = n]

W_byte(w, val) ==
  IF w.err # "" THEN w
  ELSE [w EXCEPT !.buffer = [i \in 1..Len(@) |->
                               IF i = w.position + 1 THEN Num(val) % 256 ELSE @[i]],
                 !.position = @ + 1]

W_uint16(w, val) == WriteIntLE(w, Num(val), 2, 0, 65535)

W_int16(w, val) == WriteIntLE(w, Num(val), 2, -32768, 32767)

(***************************************************************************)
(* TLC's integers have 32 bits, so a value given to a 32-bit method is     *)
(* carried as two 16-bit limbs: Wide(hi, lo) is hi * 2^16 + lo with        *)
(* 0 <= lo < 2^16.  -2^31 <= n is hi >= -2^15, n < 0 is hi < 0,            *)
(* n <= 2^32 - 1 is hi <= 2^16 - 1, and n + 2^32 is hi + 2^16.             *)
(***************************************************************************)
Wide(hi, lo) == [hi |-> hi, lo |-> lo]

WideNum(val) == IF val.has THEN val.v ELSE Wide(0, 0)

\* Buffer.write(U)Int32LE(n, position): RangeError unless the value is in
\* range (loHi <= hi <= hiHi) and the 4 bytes fit
WriteInt32LE(w, n, loHi, hiHi) ==
  IF w.err # "" THEN w
  ELSE IF n.hi < loHi \/ n.hi > hiHi \/ w.position + 4 > Len(w.buffer)
  THEN Throw(w, "RangeError")
  ELSE LET bs == BytesLE(n.lo, 2) \o BytesLE(IF n.hi < 0 THEN n.hi + 65536 ELSE n.hi, 2)
       IN  [w EXCEPT !.buffer = [i \in 1..Len(@) |->
                                   IF i > w.position /\ i <= w.position + 4
                                   THEN bs[i - w.position] ELSE @[i]],
                     !.position = @ + 4]

\* line 104: if (-0x80000000 <= n && n < 0) n >>>= 0
W_uint32(w, val) ==
  LET n == WideNum(val)
  IN  WriteInt32LE(w, IF -32768 <= n.hi /\ n.hi < 0 THEN Wide(n.hi + 65536, n.lo) ELSE n,
                   0, 65535)

\* an int32 that does not cast
W_int32_asGiven(w, val) == WriteInt32LE(w, WideNum(val), -32768, 32767)

\* line 128: if (0x80000000 <= n && n <= 0xFFFFFFFF) n |= 0
W_int32(w, val) ==
  LET n == WideNum(val)
  IN  WriteInt32LE(w, IF 32768 <= n.hi /\ n.hi <= 65535 THEN Wide(n.hi - 65536, n.lo) ELSE n,
                   -32768, 32767)

Def(v) == [has |-> TRUE, v |-> v]

Undefined == [has |-> FALSE, v |-> 0]

Get(obj, key) == IF key \in DOMAIN obj THEN Def(obj[key]) ELSE Undefined

\* a 64-bit value is a Long-like object {low, high}; reading .low of
\* undefined is a TypeError
W_uint64(w, val) ==
  IF ~val.has THEN Throw(w, "TypeError")
  ELSE W_uint32(W_uint32(w, Def(val.v.low)), Def(val.v.high))

W_int64(w, val) ==
  IF ~val.has THEN Throw(w, "TypeError")
  ELSE W_int32(W_uint32(w, Def(val.v.low)), Def(val.v.high))

W_bytes(w, val) ==
  IF w.err # "" THEN w
  ELSE IF ~val.has THEN Throw(w, "TypeError")
  ELSE [w EXCEPT !.buffer = [i \in 1..Len(@) |->
                               IF i > w.position /\ i <= w.position + Len(val.v)
                               THEN val.v[i - w.position] ELSE @[i]],
                 !.position = @ + Len(val.v)]

(***************************************************************************)
(* `for (const c of str)' iterates code points: a high surrogate followed  *)
(* by a low surrogate is one c, of two code units, and c.charCodeAt(0) is  *)
(* its first unit.  FirstUnits(str, 1) is the sequence of those values.    *)
(***************************************************************************)
RECURSIVE FirstUnits(_, _)
FirstUnits(str, i) ==
  IF i > Len(str) THEN <<>>
  ELSE IF /\ 55296 <= str[i] /\ str[i] <= 56319 /\ i < Len(str)
          /\ 56320 <= str[i + 1] /\ str[i + 1] <= 57343
  THEN <<str[i]>> \o FirstUnits(str, i + 2)
  ELSE <<str[i]>> \o FirstUnits(str, i + 1)

RECURSIVE W_units(_, _, _)
W_units(w, us, i) ==
  IF i > Len(us) THEN w ELSE W_units(W_uint16(w, Def(us[i])), us, i + 1)

W_string(w, val) ==
  IF w.err # "" THEN w
  ELSE IF ~val.has THEN Throw(w, "TypeError")
  ELSE W_uint16(W_units(w, FirstUnits(val.v, 1), 1), Def(0))


\* writer[type](value), line 573
W_typed(w, type, val) ==
  CASE type = "byte"   -> W_byte(w, val)
    [] type = "bytes"  -> W_bytes(w, val)
    [] type = "uint16" -> W_uint16(w, val)
    [] type = "uint32" -> W_uint32(w, val)
    [] type = "uint64" -> W_uint64(w, val)
    [] type = "int16"  -> W_int16(w, val)
    [] type = "int32"  -> W_int32(w, val)
    [] type = "int64"  -> W_int64(w, val)
    [] type = "string" -> W_string(w, val)
    [] OTHER           -> Throw(w, "TypeError")

\* writer.seek(p); writer.uint16(n); writer.seek(here).  An undefined p
\* (no placeholder was recorded) makes the Buffer write at offset 0.
W_patch16(w, p, n) ==
  IF w.err # "" THEN w
  ELSE LET w1 == W_uint16(W_seek(w, IF p.has THEN p.v ELSE 0), Def(n))
       IN  W_seek(w1, w.position)

(***************************************************************************)
(* getLength, lines 106-178.  Returns [ok, n]; ok = FALSE is the           *)
(* `unknown type' error.                                                   *)
(***************************************************************************)
SIZES == ("bool" :> 1) @@ ("byte" :> 1) @@ ("int16" :> 2) @@ ("uint16" :> 2)
         @@ ("count" :> 2) @@ ("offset" :> 2) @@ ("int32" :> 4) @@ ("uint32" :> 4)
         @@ ("float" :> 4) @@ ("int64" :> 8) @@ ("uint64" :> 8) @@ ("double" :> 8)

LenAdd(a, b) == [ok |-> a.ok /\ b.ok, n |-> a.n + b.n]

RECURSIVE getLengthFrom(_, _, _), getLengthElems(_, _, _)
getLengthFrom(fields, data, i) ==
  IF i > Len(fields) THEN [ok |-> TRUE, n |-> 0]
  ELSE
    LET f   == fields[i]
        obj == IF data.has THEN data.v ELSE EmptyMap   \* data = {}
        val == Get(obj, f.key)
        one ==
          IF IsGroup(f)
          THEN IF f.type = "array"
               THEN IF val.has THEN getLengthElems(f.sub, val.v, 1)
                    ELSE [ok |-> TRUE, n |-> 0]
               ELSE getLengthFrom(f.sub, val, 1)
          ELSE CASE f.type = "bytes"  ->
                      [ok |-> TRUE, n |-> IF val.has THEN Len(val.v) ELSE 0]
                 [] f.type = "string" ->
                      [ok |-> TRUE, n |-> ((IF val.has THEN Len(val.v) ELSE 0) + 1) * 2]
                 [] OTHER ->
                      IF f.type \in DOMAIN SIZES
                      THEN [ok |-> TRUE, n |-> SIZES[f.type]]
                      ELSE [ok |-> FALSE, n |-> 0]
    IN  LenAdd(one, getLengthFrom(fields, data, i + 1))

getLengthElems(sub, elems, i) ==
  IF i > Len(elems) THEN [ok |-> TRUE, n |-> 0]
  ELSE LenAdd(LenAdd([ok |-> TRUE, n |-> 4], getLengthFrom(sub, Def(elems[i]), 1)),
              getLengthElems(sub, elems, i + 1))

getLength(definition, data) == getLengthFrom(definition.fields, data, 1)

(***************************************************************************)
(* resolveIdentifier, lines 37-95, after the lazy load.  An identifier is  *)
(* [kind, name, code, definition]: kind "string" (a message name),         *)
(* "number" (an opcode), "array" (a definition passed directly) or         *)
(* "other"; only the field of its kind is meaningful.  desiredVersion is   *)
(* [star, v]: `*' or the number v.  The result is [ok, err, name, code,    *)
(* version, definition]; code and version are possibly-undefined values    *)
(* (code null, version "?").                                               *)
(***************************************************************************)
Star == [star |-> TRUE, v |-> 0]

Ver(v) == [star |-> FALSE, v |-> v]

\* an omitted desiredVersion, an omitted data argument
NoVersion == [has |-> FALSE, v |-> Star]

NoData == [has |-> FALSE, v |-> EmptyMap]

NoDefinition == [type |-> "none", fields |-> <<>>, implicit |-> FALSE]

Ident(kind, name, code) ==
  [kind |-> kind, name |-> name, code |-> code, definition |-> NoDefinition]

Resolved(name, code, version, definition) ==
  [ok |-> TRUE, err |-> "", name |-> name, code |-> code, version |-> version,
   definition |-> definition]

ResolveError(kind) ==
  [ok |-> FALSE, err |-> kind, name |-> "", code |-> Undefined, version |-> Undefined,
   definition |-> NoDefinition]

\* a selection that takes the least version for `*'
selectVersion_least(versions, desiredVersion) ==
  IF desiredVersion.star
  THEN CHOOSE v \in DOMAIN versions : \A u \in DOMAIN versions : v <= u
  ELSE desiredVersion.v

\* lines 80-92: pick the version and the definition of `name'
selectVersion(versions, desiredVersion) ==
  IF desiredVersion.star THEN MaxOf(DOMAIN versions) ELSE desiredVersion.v

\* a lookup that falls back on the greatest version
lookupDefinition_fallback(self, name, code, desiredVersion) ==
  IF name \notin DOMAIN self.messages THEN ResolveError("Error")
  ELSE Resolved(name, code,
                Def(IF desiredVersion.star \/ desiredVersion.v \in DOMAIN self.messages[name]
                    THEN selectVersion(self.messages[name], desiredVersion)
                    ELSE MaxOf(DOMAIN self.messages[name])),
                self.messages[name]
                  [IF desiredVersion.star \/ desiredVersion.v \in DOMAIN self.messages[name]
                   THEN selectVersion(self.messages[name], desiredVersion)
                   ELSE MaxOf(DOMAIN self.messages[name])])

lookupDefinition(self, name, code, desiredVersion) ==
  IF name \notin DOMAIN self.messages THEN ResolveError("Error")
  ELSE LET versions == self.messages[name]
           version  == selectVersion(versions, desiredVersion)
       IN  IF version \in DOMAIN versions
           THEN Resolved(name, code, Def(version), versions[version])
           ELSE ResolveError("Error")

resolveIdentifier(self, identifier, desiredVersion, defaultName) ==
  CASE identifier.kind = "array" ->
         Resolved(defaultName, Undefined, Undefined, identifier.definition)
    [] identifier.kind = "string" ->
         lookupDefinition(self, identifier.name,
                          Get(self.map.name, identifier.name), desiredVersion)
    [] identifier.kind = "number" ->
         IF identifier.code \in DOMAIN self.map.code
         THEN lookupDefinition(self, self.map.code[identifier.code],
                               Def(identifier.code), desiredVersion)
         ELSE ResolveError("Error")
    [] OTHER -> ResolveError("TypeError")

(***************************************************************************)
(* write, lines 488-591: the fields of one definition.  `c' is the call's  *)
(* context [w, count, offset]: the writer, shared by the whole message,    *)
(* and the call's own count and offset maps.                               *)
(*                                                                         *)
(* A log entry [kind, path, cpos, opos, n, start, stop, starts, val] says  *)
(* that a field of that kind ("array", "string", "bytes") and key path,    *)
(* whose count / offset placeholders are at cpos / opos (undefined when    *)
(* the map has none), of n elements, units or bytes, was written from      *)
(* position start to position stop; `starts' are the positions at which    *)
(* the elements of an array begin.                                         *)
(***************************************************************************)
LogEntry(kind, path, cpos, opos, n, start, stop, starts, val, base) ==
  [kind |-> kind, path |-> path, cpos |-> cpos, opos |-> opos, n |-> n,
   start |-> start, stop |-> stop, starts |-> starts, val |-> val,
   base |-> base]

Logged(w, e) == IF w.err # "" THEN w ELSE [w EXCEPT !.log = Append(@, e)]

\* a key path that forgets the object the field is in
KeyPath_bare(keyPathBase, key) == key

KeyPath(keyPathBase, key) ==
  IF keyPathBase # "" THEN keyPathBase \o "." \o key ELSE key

\* value.length, line 559: undefined for a number
LengthOf(type, val) ==
  IF type \in {"bytes", "string"} THEN Def(Len(val.v)) ELSE Undefined

\* lines 541-551: save position and write a placeholder
writeCount(c, keyPath) ==
  [c EXCEPT !.count = Put(@, keyPath, c.w.position),
            !.w = W_uint16(c.w, Def(0))]

writeOffset(c, keyPath) ==
  [c EXCEPT !.offset = Put(@, keyPath, c.w.position),
            !.w = W_uint16(c.w, Def(0))]

\* lines 555-561: update count
patchCount(w, c, type, keyPath, value) ==
  IF keyPath \notin DOMAIN c.count THEN w
  ELSE IF ~value.has THEN Throw(w, "TypeError")
  ELSE W_patch16(w, Def(c.count[keyPath]), Num(LengthOf(type, value)))

\* an offset counted from the end of the frame header
patchOffset_payload(w, c, keyPath) ==
  IF keyPath \notin DOMAIN c.offset THEN w
  ELSE W_patch16(w, Def(c.offset[keyPath]), w.position - 4)

\* lines 563-569: update offset
patchOffset(w, c, keyPath) ==
  IF keyPath \notin DOMAIN c.offset THEN w
  ELSE W_patch16(w, Def(c.offset[keyPath]), w.position)

logValue(w, start, c, type, keyPath, value) ==
  IF type \in {"string", "bytes"} /\ value.has
  THEN Logged(w, LogEntry(type, keyPath, Get(c.count, keyPath),
                          Get(c.offset, keyPath), Len(value.v),
                          start, w.position, <<>>, value.v, c.base))
  ELSE w

\* lines 571-581: write it
writeValue(w, c, type, keyPath, value) ==
  logValue(W_typed(w, type, value), w.position, c, type, keyPath, value)

\* lines 554-582
writePrimitive(c, type, keyPath, value) ==
  [c EXCEPT !.w = writeValue(patchOffset(patchCount(c.w, c, type, keyPath, value),
                                         c, keyPath),
                             c, type, keyPath, value)]

RECURSIVE writeField(_, _, _, _), writeFields(_, _, _, _, _),
          writeElements(_, _, _, _, _), writeInto(_, _, _)

\* line 534 and, in the nested call, lines 468-486: the element's
\* definition resolves to itself (code null), a writer is supplied, so no
\* buffer is allocated and no header written
writeElement(sub, element, w) ==
  writeInto(sub, IF element.has THEN element ELSE Def(EmptyMap), w)

\* lines 527-534: `last' is the position after the element's own position;
\* write the placeholder and recurse
writeElementBody(sub, value, i, starts, hereElem, w) ==
  writeElements(sub, value, i + 1, Def(w.position),
                [w |-> writeElement(sub, Def(value[i]), W_uint16(w, Def(0))),
                 starts |-> Append(starts, hereElem)])

\* an element whose first word is left at 0
writeElementHere_blank(sub, value, i, starts, w) ==
  writeElementBody(sub, value, i, starts, w.position, W_uint16(w, Def(0)))

\* lines 524-525: write position in current element
writeElementHere(sub, value, i, starts, w) ==
  writeElementBody(sub, value, i, starts, w.position,
                   W_uint16(w, Def(w.position)))

\* lines 517-535: iterate elements; `ws' is [w, starts].  Lines 519-522
\* write the position in the last element (or header)
writeElements(sub, value, i, last, ws) ==
  IF i > Len(value) \/ ws.w.err # "" THEN ws
  ELSE writeElementHere(sub, value, i, ws.starts,
                        W_patch16(ws.w, last, ws.w.position))

logArray(c, keyPath, n, ws) ==
  [c EXCEPT !.w = Logged(ws.w, LogEntry("array", keyPath, Get(c.count, keyPath),
                                        Get(c.offset, keyPath), n, c.w.position,
                                        ws.w.position, ws.starts, <<>>,
                                        c.base))]

\* an array branch that patches the offset of an empty array as well
writeArray_patchEmpty(c, f, keyPath, value) ==
  IF ~value.has \/ value.v = <<>>
  THEN logArray(c, keyPath, 0,
                [w |-> W_patch16(c.w, Get(c.offset, keyPath), c.w.position),
                 starts |-> <<>>])
  ELSE logArray(c, keyPath, Len(value.v),
         writeElements(f.sub, value.v, 1, Get(c.offset, keyPath),
                       [w |-> W_patch16(c.w, Get(c.count, keyPath), Len(value.v)),
                        starts |-> <<>>]))

\* lines 505-536: the array branch
writeArray(c, f, keyPath, value) ==
  IF ~value.has \/ value.v = <<>>
  THEN logArray(c, keyPath, 0, [w |-> c.w, starts |-> <<>>])
  ELSE logArray(c, keyPath, Len(value.v),
         writeElements(f.sub, value.v, 1, Get(c.offset, keyPath),
                       [w |-> W_patch16(c.w, Get(c.count, keyPath), Len(value.v)),
                        starts |-> <<>>]))

\* lines 492-585
writeField(f, dataObj, keyPathBase, c) ==
  IF c.w.err # "" THEN c
  ELSE IF ~dataObj.has
  THEN [c EXCEPT !.w = Throw(c.w, "TypeError")]     \* dataObj[key] of undefined
  ELSE
    LET value   == Get(dataObj.v, f.key)
        keyPath == KeyPath(keyPathBase, f.key)
    IN  IF IsGroup(f)
        THEN IF f.type = "object"
             THEN writeFields(f.sub, 1, value, keyPath, c)
             ELSE writeArray(c, f, keyPath, value)
        ELSE CASE f.type = "count"  -> writeCount(c, keyPath)
               [] f.type = "offset" -> writeOffset(c, keyPath)
               [] OTHER             -> writePrimitive(c, f.type, keyPath, value)

writeFields(fields, i, dataObj, keyPathBase, c) ==
  IF i > Len(fields) THEN c
  ELSE writeFields(fields, i + 1, dataObj, keyPathBase,
                   writeField(fields[i], dataObj, keyPathBase, c))

\* the write of one definition into writer w (lines 488-591): fresh maps;
\* `base' notes, for the log, where the call found the writer
writeInto(fields, data, w) ==
  writeFields(fields, 1, data, "",
              [w |-> w, count |-> EmptyMap, offset |-> EmptyMap,
               base |-> w.position]).w

(***************************************************************************)
(* write, lines 460-486: a top-level call (no writer supplied) on a        *)
(* loaded registry.  `desiredVersion' is possibly undefined (omitted);     *)
(* `data' is a possibly undefined record.  The result is [ok, err, used,   *)
(* length, w]: `used' is what resolveIdentifier returned, `length' what    *)
(* the buffer was allocated with and `w' the writer when write returns     *)
(* (w.buffer is the value returned).                                       *)
(***************************************************************************)
\* lines 462-467: a falsy version (undefined, or 0) becomes '*'
writeVersion(desiredVersion) ==
  IF ~desiredVersion.has THEN Star
  ELSE IF desiredVersion.v.star THEN Star
  ELSE IF desiredVersion.v.v = 0 THEN Star
  ELSE desiredVersion.v

WriteFailed(kind, used) ==
  [ok |-> FALSE, err |-> kind, used |-> used, length |-> 0, w |-> Writeable(0)]

WriteReturned(used, length, w) ==
  [ok |-> w.err = "", err |-> w.err, used |-> used, length |-> length, w |-> w]

\* a header whose length word leaves the header out
writeHeader_payloadLength(length, code) ==
  [W_uint16(W_uint16(Writeable(length), Def(length - 4)), Def(code))
     EXCEPT !.headers = @ + 1]

\* lines 483-485: allocate the buffer and write the frame header
writeHeader(length, code) ==
  [W_uint16(W_uint16(Writeable(length), Def(length)), Def(code))
     EXCEPT !.headers = @ + 1]

\* line 482 on: the buffer is allocated with 4 + getLength bytes
writeSized(used, data, len) ==
  IF ~len.ok THEN WriteFailed("Error", used)
  ELSE WriteReturned(used, 4 + len.n,
                     writeInto(used.definition.fields, data,
                               writeHeader(4 + len.n, used.code.v)))

\* a write that does not look at the code
writeResolved_unchecked(used, data) ==
  IF ~used.ok THEN WriteFailed(used.err, used)
  ELSE writeSized(used, data, getLength(used.definition, data))

\* lines 474-479: make sure `code' is valid
writeResolved(used, data) ==
  IF ~used.ok THEN WriteFailed(used.err, used)
  ELSE IF ~used.code.has \/ used.code.v < 0 THEN WriteFailed("Error", used)
  ELSE writeSized(used, data, getLength(used.definition, data))

write(self, identifier, desiredVersion, data) ==
  writeResolved(resolveIdentifier(self, identifier, writeVersion(desiredVersion),
                                  "<Object>"),
                IF data.has THEN data ELSE Def(EmptyMap))

(***************************************************************************)
(* Byte stream, reader side (stream.js, Readable).  A reader is            *)
(* [buffer, position, err, warnings, diverged, ...]; position -1 stands    *)
(* for NaN (the position after bytes(undefined)).  A read returns [r, val] *)
(* with val possibly undefined.  `buffer' is the bytes the reads see;      *)
(* `mem' is the same memory as it is when the record is looked at: a slice *)
(* of the buffer is a view of that memory, not a copy.  `diverged' says    *)
(* the decoder entered a loop it cannot leave; `errPath' is the field path *)
(* in the message of the error thrown and `reads' records where the        *)
(* decoder read, for the properties below.                                 *)
(***************************************************************************)
Readable(buffer, position) ==
  [buffer |-> buffer, position |-> position, err |-> "", warnings |-> <<>>,
   diverged |-> FALSE, mem |-> buffer, errPath |-> "", reads |-> <<>>]

\* the reader of a record that is looked at when the memory holds `mem'
Viewed(r, mem) == [r EXCEPT !.mem = mem]

\* a read about to be made for the field at keyPath: `want' is the offset
\* or pointer recorded for it, `cursor' the position before any seek
Noted(r, kind, keyPath, want, cursor) ==
  IF r.err # "" THEN r
  ELSE [r EXCEPT !.reads = Append(@, [kind |-> kind, path |-> keyPath,
                                      want |-> want, cursor |-> cursor,
                                      at |-> r.position, here |-> want])]

Read(r, val) == [r |-> r, val |-> val]

R_throw(r, kind) == Read(IF r.err = "" THEN [r EXCEPT !.err = kind] ELSE r, Undefined)

R_seek(r, n) == IF r.err # "" THEN r ELSE [r EXCEPT !.position = n]

R_warn(r, kind, keyPath) ==
  IF r.err # "" THEN r
  ELSE [r EXCEPT !.warnings = Append(@, [w |-> kind, path |-> keyPath])]

RECURSIVE FromLE(_, _, _)
FromLE(buffer, p, k) ==
  IF k = 0 THEN 0 ELSE buffer[p + 1] + 256 * FromLE(buffer, p + 1, k - 1)

\* Buffer.read(U)Int<8k>LE(position): RangeError unless the k bytes exist
ReadIntLE(r, k, signed) ==
  IF r.err # "" THEN Read(r, Undefined)
  ELSE IF r.position < 0 \/ r.position + k > Len(r.buffer)
  THEN R_throw(r, "RangeError")
  ELSE LET u == FromLE(r.buffer, r.position, k)
       IN  Read([r EXCEPT !.position = @ + k],
                Def(IF signed /\ u >= 256 ^ k \div 2 THEN u - 256 ^ k ELSE u))

R_byte(r) ==
  IF r.err # "" THEN Read(r, Undefined)
  ELSE IF r.position < 0 THEN Read(r, Undefined)
  ELSE Read([r EXCEPT !.position = @ + 1],
            IF r.position < Len(r.buffer) THEN Def(r.buffer[r.position + 1])
            ELSE Undefined)

R_uint16(r) == ReadIntLE(r, 2, FALSE)

\* Buffer.read(U)Int32LE(position), as Wide(hi, lo)
ReadInt32LE(r, signed) ==
  IF r.err # "" THEN Read(r, Undefined)
  ELSE IF r.position < 0 \/ r.position + 4 > Len(r.buffer)
  THEN R_throw(r, "RangeError")
  ELSE LET lo == FromLE(r.buffer, r.position, 2)
           hi == FromLE(r.buffer, r.position + 2, 2)
       IN  Read([r EXCEPT !.position = @ + 4],
                Def(Wide(IF signed /\ hi >= 32768 THEN hi - 65536 ELSE hi, lo)))

R_uint32(r) == ReadInt32LE(r, FALSE)

R_int16(r) == ReadIntLE(r, 2, TRUE)

R_int32(r) == ReadInt32LE(r, TRUE)

\* new Long(this.int32(), this.int32(), unsigned)
LongOf(lo, hi) ==
  IF hi.r.err # "" THEN Read(hi.r, Undefined)
  ELSE Read(hi.r, Def([low |-> lo.val.v, high |-> hi.val.v]))

R_longHigh(lo) == LongOf(lo, R_int32(lo.r))

R_long(r) == R_longHigh(R_int32(r))

\* buffer.slice(position, position += n): a view of the buffer's memory; an
\* undefined n leaves position NaN
R_bytes(r, n) ==
  IF r.err # "" THEN Read(r, Undefined)
  ELSE IF ~n.has \/ r.position < 0
  THEN Read([r EXCEPT !.position = -1], Def(<<>>))
  ELSE Read([r EXCEPT !.position = @ + n.v],
            Def(SubSeq(r.mem, r.position + 1,
                       Min2(r.position + n.v, Len(r.mem)))))

RECURSIVE R_stringFrom(_, _)

\* ret += String.fromCharCode(c), until c is 0
R_stringUnit(c, ret) ==
  IF c.r.err # "" THEN Read(c.r, Undefined)
  ELSE IF c.val.v = 0 THEN Read(c.r, Def(ret))
  ELSE R_stringFrom(c.r, Append(ret, c.val.v))

R_stringFrom(r, ret) == R_stringUnit(R_uint16(r), ret)

R_string(r) == R_stringFrom(r, <<>>)

\* reader[type](count.get(keyPath)), line 438
R_typed(r, type, n) ==
  CASE type = "byte"   -> R_byte(r)
    [] type = "bytes"  -> R_bytes(r, n)
    [] type = "uint16" -> R_uint16(r)
    [] type = "uint32" -> R_uint32(r)
    [] type = "uint64" -> R_long(r)
    [] type = "int16"  -> R_int16(r)
    [] type = "int32"  -> R_int32(r)
    [] type = "int64"  -> R_long(r)
    [] type = "string" -> R_string(r)
    [] OTHER           -> R_throw(r, "TypeError")

(***************************************************************************)
(* parse, lines 372-449: the fields of one definition.  `c' is the call's  *)
(* context [r, count, offset]: the reader, shared by the whole message,    *)
(* and the call's own maps of the count and offset values read.  A parse   *)
(* step returns [c, data].                                                 *)
(***************************************************************************)
\* parseField(field, data, []) at line 447: the base is an empty array, which
\* is not '' and prints as the empty string
ArrayBase == "[]"

ParseKeyPath(keyPathBase, key) ==
  IF keyPathBase = ArrayBase THEN "." \o key
  ELSE IF keyPathBase # "" THEN keyPathBase \o "." \o key
  ELSE key

\* an empty slot of `new Array(length)' that the chain never filled
Hole == [hole |-> TRUE]

Holes(n) == [i \in 1..n |-> Hole]

Step(c, data) == [c |-> c, data |-> data]

\* a decoder that warns and reads on from where the cursor is
seekTo_stay(r, n, keyPath) ==
  IF r.position # n THEN R_warn(r, "offset mismatch", keyPath) ELSE r

\* lines 396-400 and 432-435: warn and seek when the cursor is elsewhere
seekTo(r, n, keyPath) ==
  IF r.position # n THEN R_seek(R_warn(r, "offset mismatch", keyPath), n) ELSE r

RECURSIVE parseField(_, _, _, _), parseFields(_, _, _, _, _),
          parseElements(_, _, _, _, _, _, _), parseFrom(_, _)

\* lines 410-412
warnBounds(r, keyPath, length, next, index) ==
  IF r.err = "" /\ next.v # 0 /\ length.has /\ index = length.v
  THEN R_warn(r, "out of bounds element", keyPath)
  ELSE r

\* line 408: array[index++] = the element parsed, then the loop goes on
parseElement(f, keyPath, length, next, array, seen, elem) ==
  parseElements(f, keyPath, length, next, Append(array, elem.data), seen,
                warnBounds(elem.c.r, keyPath, length, next, Len(array) + 1))

\* lines 407-408: `nxt' is the read of the element's next pointer
parseNext(f, keyPath, length, array, seen, nxt) ==
  IF nxt.r.err # "" THEN Read(nxt.r, Undefined)
  ELSE parseElement(f, keyPath, length, nxt.val, array, seen,
                    parseFrom(f.sub, nxt.r))

\* the word read as `here' is noted with the position it was read at
hereRead(here, keyPath, pos) ==
  [here.r EXCEPT !.reads = Append(@, [kind |-> "here", path |-> keyPath,
                                      want |-> pos, cursor |-> pos,
                                      at |-> here.r.position - 2,
                                      here |-> here.val.v])]

\* a decoder that takes any word for the element's position
parseHere_lenient(f, keyPath, length, pos, array, seen, here) ==
  IF here.r.err # "" THEN Read(here.r, Undefined)
  ELSE parseNext(f, keyPath, length, array, seen,
                 R_uint16(hereRead(here, keyPath, pos)))

\* lines 402-405: `here' is the read of the element's own position
parseHere(f, keyPath, length, pos, array, seen, here) ==
  IF here.r.err # "" THEN Read(here.r, Undefined)
  ELSE IF pos # here.val.v
  THEN R_throw([hereRead(here, keyPath, pos) EXCEPT !.errPath = keyPath], "Error")
  ELSE parseNext(f, keyPath, length, array, seen,
                 R_uint16(hereRead(here, keyPath, pos)))

\* lines 394-413: the `while (next)' loop of one array; `array' holds the
\* elements read so far and `seen' the values `next' has had.  The buffer
\* does not change while it is read, so an iteration that starts from a
\* value of `next' seen before repeats what followed it, for ever
parseElements(f, keyPath, length, next, array, seen, r) ==
  IF r.err # "" \/ r.diverged \/ ~next.has \/ next.v = 0 THEN Read(r, Def(array))
  ELSE IF next.v \in seen THEN Read([r EXCEPT !.diverged = TRUE], Def(array))
  ELSE parseHere(f, keyPath, length, next.v, array, seen \cup {next.v},
                 R_uint16(Noted(seekTo(r, next.v, keyPath), "element", keyPath,
                                next.v, r.position)))

\* lines 390 and 415: new Array(length) keeps the slots the loop did not fill
storeArray(c, data, key, length, got) ==
  Step([c EXCEPT !.r = got.r],
       IF got.r.err # "" THEN data
       ELSE Put(data, key,
                IF Len(got.val.v) >= (IF length.has THEN length.v ELSE 1)
                THEN got.val.v
                ELSE got.val.v
                     \o Holes((IF length.has THEN length.v ELSE 1) - Len(got.val.v))))

\* lines 388-415
parseArray(c, data, f, keyPath) ==
  storeArray(c, data, f.key, Get(c.count, keyPath),
             parseElements(f, keyPath, Get(c.count, keyPath),
                           Get(c.offset, keyPath), <<>>, {}, c.r))

\* lines 419-427
setCount(c, data, keyPath, v) ==
  Step([c EXCEPT !.r = v.r,
                 !.count = IF v.val.has THEN Put(@, keyPath, v.val.v) ELSE @],
       data)

setOffset(c, data, keyPath, v) ==
  Step([c EXCEPT !.r = v.r,
                 !.offset = IF v.val.has THEN Put(@, keyPath, v.val.v) ELSE @],
       data)

\* line 438
setValue(c, data, key, v) ==
  Step([c EXCEPT !.r = v.r], IF v.val.has THEN Put(data, key, v.val.v) ELSE data)

\* lines 418-441
parsePrimitive(c, data, f, keyPath) ==
  CASE f.type = "count"  -> setCount(c, data, keyPath, R_uint16(c.r))
    [] f.type = "offset" -> setOffset(c, data, keyPath, R_uint16(c.r))
    [] OTHER ->
         setValue(c, data, f.key,
                  R_typed(IF keyPath \in DOMAIN c.offset
                          THEN Noted(seekTo(c.r, c.offset[keyPath], keyPath),
                                     "value", keyPath, c.offset[keyPath],
                                     c.r.position)
                          ELSE c.r,
                          f.type, Get(c.count, keyPath)))

\* lines 380-386: data[key] = {} and its fields parsed into it
setObject(data, key, s) == Step(s.c, Put(data, key, s.data))

parseField(f, data, keyPathBase, c) ==
  IF c.r.err # "" \/ c.r.diverged THEN Step(c, data)
  ELSE IF IsGroup(f)
  THEN IF f.type = "object"
       THEN setObject(data, f.key,
                      parseFields(f.sub, 1, EmptyMap,
                                  ParseKeyPath(keyPathBase, f.key), c))
       ELSE parseArray(c, data, f, ParseKeyPath(keyPathBase, f.key))
  ELSE parsePrimitive(c, data, f, ParseKeyPath(keyPathBase, f.key))

parseFieldsFrom(fields, i, keyPathBase, s) ==
  parseFields(fields, i, s.data, keyPathBase, s.c)

parseFields(fields, i, data, keyPathBase, c) ==
  IF i > Len(fields) THEN Step(c, data)
  ELSE parseFieldsFrom(fields, i + 1, keyPathBase,
                       parseField(fields[i], data, keyPathBase, c))

\* the parse of one definition from reader r (lines 372-449): fresh maps
parseFrom(fields, r) ==
  parseFields(fields, 1, EmptyMap, ArrayBase,
              [r |-> r, count |-> EmptyMap, offset |-> EmptyMap])

(***************************************************************************)
(* parse, lines 356-370: a top-level call on a loaded registry with a      *)
(* Buffer.  The result is [ok, err, used, data, r].                        *)
(***************************************************************************)
\* line 358 and the default parameter of resolveIdentifier: only an omitted
\* version becomes '*'
parseVersion(desiredVersion) ==
  IF ~desiredVersion.has THEN Star ELSE desiredVersion.v

ParseFailed(kind, used) ==
  [ok |-> FALSE, err |-> kind, used |-> used, data |-> EmptyMap,
   r |-> Readable(<<>>, 4)]

ParseReturned(used, s) ==
  [ok |-> s.c.r.err = "" /\ ~s.c.r.diverged, err |-> s.c.r.err,
   used |-> used, data |-> s.data, r |-> s.c.r]

\* lines 372-449, on the reader of the call
parseReader(used, r) ==
  IF ~used.ok THEN ParseFailed(used.err, used)
  ELSE ParseReturned(used, parseFrom(used.definition.fields, r))

\* lines 367-370: the buffer is read from position 4
parseResolved(used, buffer) == parseReader(used, Readable(buffer, 4))

parse(self, identifier, desiredVersion, buffer) ==
  parseResolved(resolveIdentifier(self, identifier, parseVersion(desiredVersion),
                                  "<Object>"),
                buffer)

(***************************************************************************)
(* The packages load() is given.  "codec" mirrors test/fixtures/           *)
(* protocol-write (one message per feature of the codec), "fixture"        *)
(* mirrors test/fixtures/protocol-load (every diagnostic of the loader),   *)
(* "default" is what require.resolve('tera-data') finds, "invalid" is a    *)
(* base path with nothing in it and "broken" holds a definition file with  *)
(* a sub-field line under a scalar.                                        *)
(***************************************************************************)
CodecPackage ==
  Package(TRUE,
    << MapLine("VER", <<"1", "0", "0", "0">>),
       MapLine("STR", <<"1", "0", "0", "1">>),
       MapLine("BYT", <<"1", "0", "0", "2">>),
       MapLine("LNG", <<"1", "0", "0", "3">>),
       MapLine("ARR", <<"1", "0", "0", "4">>),
       MapLine("OBJ", <<"1", "0", "0", "5">>),
       MapLine("NEST", <<"1", "0", "0", "6">>),
       MapLine("SAME", <<"1", "0", "0", "7">>) >>,
    TRUE,
    << DefFile("ARR.3.def", "ARR", <<"3">>,
         << DefLine(0, "array", "arr"), DefLine(1, "uint16", "x"),
            DefLine(1, "string", "s"), DefLine(0, "byte", "b") >>),
       DefFile("BYT.3.def", "BYT", <<"3">>,
         << DefLine(0, "bytes", "buf"), DefLine(0, "uint16", "x") >>),
       DefFile("LNG.3.def", "LNG", <<"3">>,
         << DefLine(0, "int64", "n"), DefLine(0, "uint32", "u"),
            DefLine(0, "int32", "i") >>),
       DefFile("NEST.3.def", "NEST", <<"3">>,
         << DefLine(0, "array", "arr"), DefLine(1, "array", "inner"),
            DefLine(2, "uint16", "w") >>),
       DefFile("OBJ.3.def", "OBJ", <<"3">>,
         << DefLine(0, "object", "obj"), DefLine(1, "string", "s"),
            DefLine(1, "array", "arr"), DefLine(2, "byte", "v"),
            DefLine(0, "uint16", "x") >>),
       DefFile("SAME.3.def", "SAME", <<"3">>,
         << DefLine(0, "array", "arr"), DefLine(1, "bytes", "s"),
            DefLine(0, "bytes", "s") >>),
       DefFile("STR.3.def", "STR", <<"3">>,
         << DefLine(0, "string", "s"), DefLine(0, "byte", "b") >>),
       DefFile("VER.0.def", "VER", <<"0">>,
         << DefLine(0, "byte", "b") >>),
       DefFile("VER.10.def", "VER", <<"1", "0">>,
         << DefLine(0, "byte", "b"), DefLine(0, "uint16", "x") >>),
       DefFile("VER.2.def", "VER", <<"2">>,
         << DefLine(0, "uint16", "x") >>) >>)

FixturePackage ==
  Package(TRUE,
    << MapBlank,
       MapLine("TEST_DEF", <<"1", "0", "0", "0">>),
       MapLine("VER", <<"7">>),
       MapLine("VER", <<"8">>),
       MapLine("BADNUM", <<"x", "1">>),
       MapBad(3),
       MapLine("EXPL", <<"1", "2", "a">>),
       MapLine("ALIAS", <<"8">>) >>,
    TRUE,
    << DefFile("EXPL.3.def", "EXPL", <<"3">>,
         << DefLine(0, "count", "arr"), DefLine(0, "offset", "arr"),
            DefLine(0, "array", "arr"), DefLine(1, "byte", "v") >>),
       DefFile("LATE.3.def", "LATE", <<"3">>,
         << DefLine(0, "string", "s"), DefLine(0, "array", "arr"),
            DefLine(1, "offset", "t"), DefLine(1, "string", "t"),
            DefLine(0, "byte", "b") >>),
       BadFile("NO_VERSION.def"),
       DefFile("TEST_DEF.3.def", "TEST_DEF", <<"3">>,
         << DefLine(0, "byte", "a"), DefBlank, DefBad,
            DefLine(0, "object", "o"), DefLine(2, "uint16", "deep"),
            DefLine(0, "uint16", "z") >>),
       DefFile("UNMAPPED.3.def", "UNMAPPED", <<"3">>,
         << DefLine(0, "byte", "b") >>),
       DefFile("VER.2.def", "VER", <<"2">>,
         << DefLine(0, "int16", "y") >>) >>)

DefaultPackage ==
  Package(TRUE,
    << MapLine("PING", <<"1">>), MapLine("VER", <<"2", "0", "0", "0">>) >>,
    TRUE,
    << DefFile("PING.3.def", "PING", <<"3">>, << DefLine(0, "uint32", "t") >>),
       DefFile("VER.5.def", "VER", <<"5">>, << DefLine(0, "int32", "i") >>) >>)

InvalidPackage == Package(FALSE, <<>>, FALSE, <<>>)

BrokenPackage ==
  Package(TRUE,
    << MapLine("PING", <<"2">>) >>,
    TRUE,
    << DefFile("PING.3.def", "PING", <<"3">>, << DefLine(0, "byte", "p") >>),
       DefFile("ZBAD.3.def", "ZBAD", <<"3">>,
         << DefLine(0, "byte", "a"), DefLine(1, "byte", "under") >>) >>)

Packages == ("codec" :> CodecPackage) @@ ("fixture" :> FixturePackage)
            @@ ("default" :> DefaultPackage) @@ ("invalid" :> InvalidPackage)
            @@ ("broken" :> BrokenPackage)

(***************************************************************************)
(* The records write() is given: for a definition, every record whose      *)
(* fields are each absent or hold a value of the field's type, arrays      *)
(* holding up to MaxElems elements.  Strings are the empty string, "A" and *)
(* a character outside the basic plane (a surrogate pair).                 *)
(***************************************************************************)
StringVals == { <<>>, <<65>>, <<55357, 56832>> }

BytesVals == { <<>>, <<1, 255>> }

ScalarVals(type) ==
  CASE type = "byte"   -> {7}
    [] type = "uint16" -> {513}
    [] type = "int16"  -> {-2}
    [] type = "uint32" -> {Wide(61035, 10240)}
    [] type = "int32"  -> {Wide(-1, 65533)}
    [] type = "int64"  -> {[low |-> Wide(-1, 65535), high |-> Wide(-1, 65531)]}
    [] type = "uint64" -> {[low |-> Wide(-1, 65535), high |-> Wide(0, 5)]}
    [] type = "string" -> StringVals
    [] type = "bytes"  -> BytesVals
    [] OTHER           -> {0}

SeqsUpTo(S, n) == UNION { [1..k -> S] : k \in 0..n }

\* with `partial', a field may be absent; without, every field is present
RECURSIVE RecordsFrom(_, _, _)
RecordsFrom(fields, i, partial) ==
  IF i > Len(fields) THEN { EmptyMap }
  ELSE
    LET f    == fields[i]
        rest == RecordsFrom(fields, i + 1, partial)
        vals == IF f.type = "array"
                THEN SeqsUpTo(RecordsFrom(f.sub, 1, partial), MaxElems)
                ELSE IF f.type = "object"
                THEN RecordsFrom(f.sub, 1, partial)
                ELSE ScalarVals(f.type)
    IN  IF f.type \in {"count", "offset"} THEN rest
        ELSE { Put(r, f.key, v) : r \in rest, v \in vals }
             \cup (IF partial THEN rest ELSE {})

\* the records that conform to the definition: every field has a value
Conforming(definition) == RecordsFrom(definition.fields, 1, FALSE)

(***************************************************************************)
(* The state: the instance's fields (map, messages, loaded), what the last *)
(* load() call was given and did, and a caller that writes a record,       *)
(* parses the buffer it got back and drops both (test/protocol.js).        *)
(* `buffer' is the memory of the Buffer the caller holds.                  *)
(***************************************************************************)
VARIABLES map, messages, loaded, warnings, lastLoad, pc, call, wres, pres, buffer

vars == <<map, messages, loaded, warnings, lastLoad, pc, call, wres, pres, buffer>>

Self == [map |-> map, messages |-> messages, loaded |-> loaded]

Fresh == [map |-> [name |-> EmptyMap, code |-> EmptyMap], messages |-> EmptyMap,
          loaded |-> FALSE]

NoCall == [identifier |-> Ident("other", "", 0), version |-> NoVersion, data |-> NoData]

NoWrite == WriteFailed("none", ResolveError("none"))

NoParse == ParseFailed("none", ResolveError("none"))

Init ==
  /\ map = Fresh.map
  /\ messages = Fresh.messages
  /\ loaded = FALSE
  /\ warnings = <<>>
  /\ lastLoad = [pkg |-> "none", threw |-> FALSE, dirty |-> FALSE]
  /\ pc = "idle"
  /\ call = NoCall
  /\ wres = NoWrite
  /\ pres = NoParse
  /\ buffer = <<>>

\* the instance holds entries (of an earlier load)
Dirty(self) == self.map # Fresh.map \/ self.messages # Fresh.messages

\* what a load() call leaves in the instance; lastLoad notes the package
\* given, whether the call threw and whether it started from a dirty instance
Loaded(r, p) ==
  /\ map' = r.map
  /\ messages' = r.messages
  /\ loaded' = r.loaded
  /\ warnings' = r.warnings
  /\ lastLoad' = [pkg |-> p, threw |-> r.threw, dirty |-> Dirty(Self)]

\* protocol.load(basePath)
Load(p) ==
  /\ pc = "idle"
  /\ Loaded(load(Self, Packages[p]), p)
  /\ UNCHANGED <<pc, call, wres, pres, buffer>>

LazyLoaded(r) ==
  [r |-> [map |-> r.map, messages |-> r.messages, loaded |-> r.loaded],
   ran |-> TRUE, threw |-> r.threw]

\* line 45: lazy load
LazyLoad(self) ==
  IF self.loaded THEN [r |-> self, ran |-> FALSE, threw |-> FALSE]
  ELSE LazyLoaded(load(self, DefaultPackage))

\* a schema object a caller supplies directly: [['b', 'byte'], ['x', 'uint16']]
DirectSchema ==
  [type |-> "root",
   fields |-> << Entry("b", "byte", <<>>), Entry("x", "uint16", <<>>) >>,
   implicit |-> FALSE]

\* the identifiers a caller passes: names and opcodes, known and unknown, a
\* schema object, and a value that is none of these
Identifiers ==
  { Ident("string", n, 0) :
      n \in {"VER", "STR", "BYT", "LNG", "ARR", "OBJ", "NEST", "SAME", "EXPL",
             "TEST_DEF", "UNMAPPED", "PING", "ALIAS", "NOPE"} }
  \cup { Ident("number", "", c) : c \in {1000, 7, 8, 9999} }
  \cup { [Ident("array", "", 0) EXCEPT !.definition = DirectSchema],
         Ident("other", "", 0) }

VersionArgs == { NoVersion, Def(Star) } \cup { Def(Ver(v)) : v \in {0, 2, 5, 10} }

DataArgs(used, partial) ==
  IF used.ok
  THEN { Def(r) : r \in RecordsFrom(used.definition.fields, 1, partial) }
       \cup { NoData }
  ELSE { NoData }

\* the records a caller passes for the definition the call resolves to, or
\* none; a call that names no version is also given records with absent
\* fields, a call that names one is given complete records
DataFor(self, identifier, desiredVersion) ==
  DataArgs(resolveIdentifier(self, identifier, writeVersion(desiredVersion),
                             "<Object>"),
           ~desiredVersion.has)

\* a write() call after its lazy load
Written(lazy, identifier, desiredVersion) ==
  /\ ~lazy.threw
  /\ map' = lazy.r.map
  /\ messages' = lazy.r.messages
  /\ loaded' = lazy.r.loaded
  /\ lastLoad' = IF lazy.ran
                 THEN [pkg |-> "default", threw |-> FALSE, dirty |-> Dirty(Self)]
                 ELSE lastLoad
  /\ \E data \in DataFor(lazy.r, identifier, desiredVersion) :
       /\ call' = [identifier |-> identifier, version |-> desiredVersion,
                   data |-> data]
       /\ wres' = write(lazy.r, identifier, desiredVersion, data)
  /\ buffer' = wres'.w.buffer

\* protocol.write(identifier, desiredVersion, data)
Write(identifier, desiredVersion) ==
  /\ pc = "idle"
  /\ Written(LazyLoad(Self), identifier, desiredVersion)
  /\ pc' = "written"
  /\ UNCHANGED <<warnings, pres>>

\* protocol.parse(identifier, desiredVersion, buffer) on the caller's buffer
Parse ==
  /\ pc = "written"
  /\ wres.ok
  /\ pres' = parse(Self, call.identifier, call.version, buffer)
  /\ pc' = "parsed"
  /\ UNCHANGED <<map, messages, loaded, warnings, lastLoad, call, wres, buffer>>

\* the caller is done with the buffer and the record
Return ==
  /\ pc \in {"written", "parsed", "changed"}
  /\ pc' = "idle"
  /\ call' = NoCall
  /\ wres' = NoWrite
  /\ pres' = NoParse
  /\ buffer' = <<>>
  /\ UNCHANGED <<map, messages, loaded, warnings, lastLoad>>

Next ==
  \/ \E p \in DOMAIN Packages : Load(p)
  \/ \E identifier \in Identifiers, desiredVersion \in VersionArgs :
       Write(identifier, desiredVersion)
  \/ Parse
  \/ Return

Spec == Init /\ [][Next]_vars

(***************************************************************************)
(* The decoder on buffers it did not write.  A second caller starts from   *)
(* the registry of the "codec" package, writes a complete record, and      *)
(* changes one word of the buffer before it parses it, or one byte after   *)
(* it has parsed it: buffer.writeUInt16LE(v, p) and buffer[p] = v.         *)
(***************************************************************************)
\* the little-endian uint16 at position p
U16At(b, p) == b[p + 1] + 256 * b[p + 2]

\* buffer.writeUInt16LE(v, p)
PutU16(b, p, v) == [b EXCEPT ![p + 1] = v % 256, ![p + 2] = v \div 256]

\* the positions at which the writer put an array element
ElementStarts ==
  UNION { { wres.w.log[i].starts[k] : k \in 1..Len(wres.w.log[i].starts) } :
            i \in { j \in 1..Len(wres.w.log) : wres.w.log[j].kind = "array" } }

\* the positions of the words that hold a count, an offset, an element's own
\* position or its next pointer
MetaWords ==
  { wres.w.log[i].cpos.v : i \in { j \in 1..Len(wres.w.log) : wres.w.log[j].cpos.has } }
  \cup { wres.w.log[i].opos.v : i \in { j \in 1..Len(wres.w.log) : wres.w.log[j].opos.has } }
  \cup ElementStarts
  \cup { q + 2 : q \in ElementStarts }

\* the values the caller puts in the word at p: none, one more, one less, and
\* the position of any element
WordsFor(p) ==
  ({0, U16At(buffer, p) + 1, U16At(buffer, p) - 1, U16At(buffer, p) + 2}
     \cup ElementStarts)
  \ {U16At(buffer, p), -1}

\* the instance after protocol.load() of the "codec" package
Codec == load(Fresh, CodecPackage)

WireInit ==
  /\ map = Codec.map
  /\ messages = Codec.messages
  /\ loaded = Codec.loaded
  /\ warnings = Codec.warnings
  /\ lastLoad = [pkg |-> "codec", threw |-> Codec.threw, dirty |-> FALSE]
  /\ pc = "idle"
  /\ call = NoCall
  /\ wres = NoWrite
  /\ pres = NoParse
  /\ buffer = <<>>

\* the caller changes one word of the buffer it was given, before parsing
Corrupt(p, v) ==
  /\ pc = "written"
  /\ wres.ok
  /\ buffer = wres.w.buffer
  /\ buffer' = PutU16(buffer, p, v)
  /\ UNCHANGED <<map, messages, loaded, warnings, lastLoad, pc, call, wres, pres>>

\* the caller changes one byte of the buffer after parse returned, and looks
\* at the record: the slices in it show the memory as it is now
Overwrite(p) ==
  /\ pc = "parsed"
  /\ pres.ok
  /\ buffer = wres.w.buffer
  /\ buffer' = [buffer EXCEPT ![p + 1] = (@ + 1) % 256]
  /\ pres' = parseReader(pres.used, Viewed(Readable(buffer, 4), buffer'))
  /\ pc' = "changed"
  /\ UNCHANGED <<map, messages, loaded, warnings, lastLoad, call, wres>>

WireIdentifiers ==
  { Ident("string", n, 0) : n \in {"STR", "BYT", "ARR", "OBJ", "NEST"} }

WireNext ==
  \/ \E identifier \in WireIdentifiers : Write(identifier, Def(Ver(3)))
  \/ \E p \in MetaWords : \E v \in WordsFor(p) : Corrupt(p, v)
  \/ Parse
  \/ \E p \in 4..(Len(buffer) - 1) : Overwrite(p)
  \/ Return

WireSpec == WireInit /\ [][WireNext]_vars

(***************************************************************************)
(* The writer stream on its own: a third caller makes a Writeable with     *)
(* room for one 32-bit value after `p' bytes, seeks to p and writes n with *)
(* int32 or uint32.  n is Wide(hi, lo), for -2^31 <= n <= 2^32 - 1.        *)
(***************************************************************************)
\* the high and the low halves of the values written: the ends of the
\* ranges of int32 and uint32 and values next to them
WideHighs == {-32768, -32767, -1, 0, 1, 32767, 32768, 65534, 65535}

WideLows == {0, 1, 255, 256, 65535}

StreamOffsets == {0, 2}

\* w = new Writeable(p + 4); w.seek(p); w[type](n)
StreamWrite(type, n, p) ==
  /\ pc = "idle"
  /\ call' = [NoCall EXCEPT !.identifier.name = type, !.data = Def(n)]
  /\ wres' = [NoWrite EXCEPT !.w = W_typed(W_seek(Writeable(p + 4), p), type, Def(n))]
  /\ pc' = "streamed"
  /\ UNCHANGED <<map, messages, loaded, warnings, lastLoad, pres, buffer>>

\* the caller drops the stream
Drop ==
  /\ pc = "streamed"
  /\ pc' = "idle"
  /\ call' = NoCall
  /\ wres' = NoWrite
  /\ UNCHANGED <<map, messages, loaded, warnings, lastLoad, pres, buffer>>

StreamNext ==
  \/ \E type \in {"int32", "uint32"}, hi \in WideHighs, lo \in WideLows,
          p \in StreamOffsets :
       StreamWrite(type, Wide(hi, lo), p)
  \/ Drop

StreamSpec == Init /\ [][StreamNext]_vars

(***************************************************************************)
(* Properties.  `Returned' says the caller holds the buffer a top-level    *)
(* write returned; U16At reads the little-endian uint16 at a position of   *)
(* it; ArrayEntries, StringEntries and BytesEntries are what the encoder   *)
(* logged for the fields of those kinds, at every nesting depth.           *)
(***************************************************************************)
Returned == pc \in {"written", "parsed"} /\ wres.ok

Entries(kind) ==
  { wres.w.log[i] : i \in { j \in 1..Len(wres.w.log) : wres.w.log[j].kind = kind } }

ArrayEntries == Entries("array")

StringEntries == Entries("string")

BytesEntries == Entries("bytes")

\* the record write() worked on: an omitted data argument is {}
GivenData == IF call.data.has THEN call.data ELSE Def(EmptyMap)

\* C1: round trip: when a record that conforms to a loaded schema (every
\* field present) is written and the buffer parsed with the same schema,
\* parse succeeds and returns a record equal to the one written.
RoundTrip ==
  (/\ pc = "parsed"
   /\ pres.used.ok
   /\ pres.used.definition = wres.used.definition
   /\ call.data.has
   /\ call.data.v \in Conforming(wres.used.definition))
  => pres.ok /\ pres.data = call.data.v

\* C2: length agreement: the buffer a top-level write returns has
\* 4 + getLength(S, R) bytes and the writer's cursor ends at that value.
LengthAgreement ==
  Returned =>
    /\ Len(wres.w.buffer) = 4 + getLength(wres.used.definition, GivenData).n
    /\ wres.w.position = Len(wres.w.buffer)

\* the opcode map relates the name and the code, in the direction the
\* identifier was resolved
MappedTo(name, code) ==
  \/ name \in DOMAIN map.name /\ map.name[name] = code
  \/ code \in DOMAIN map.code /\ map.code[code] = name

SelfPointers ==
  Returned =>
    \A e \in ArrayEntries :
      /\ Len(e.starts) = e.n
      /\ \A i \in 1..Len(e.starts) :
           /\ U16At(wres.w.buffer, e.starts[i]) = e.starts[i]
           /\ U16At(wres.w.buffer, e.starts[i] + 2) =
                (IF i < Len(e.starts) THEN e.starts[i + 1] ELSE 0)

\* an array of two elements, the elements holding arrays themselves
SelfPointersWitness ==
  /\ Returned
  /\ \E e \in ArrayEntries : e.path = "arr" /\ e.n = 2
  /\ \E e \in ArrayEntries : e.path = "inner" /\ e.n = 2

\* C5: header equivalence: in a buffer written from an implicit-meta
\* schema, the offset placeholder of every string, bytes and non-empty
\* array field holds the position where its payload starts (the first
\* element of an array), and the count placeholder of every bytes and
\* non-empty array field holds the number of bytes or elements.
HeaderEquivalence ==
  Returned /\ wres.used.definition.implicit =>
    /\ \A e \in ArrayEntries :
         e.n # 0 =>
           /\ e.opos.has /\ U16At(wres.w.buffer, e.opos.v) = e.start
           /\ e.starts[1] = e.start
           /\ e.cpos.has /\ U16At(wres.w.buffer, e.cpos.v) = e.n
    /\ \A e \in BytesEntries :
         /\ e.opos.has /\ U16At(wres.w.buffer, e.opos.v) = e.start
         /\ e.cpos.has /\ U16At(wres.w.buffer, e.cpos.v) = Len(e.val)
         /\ SubSeq(wres.w.buffer, e.start + 1, e.start + Len(e.val)) = e.val
    /\ \A e \in StringEntries :
         /\ e.opos.has /\ U16At(wres.w.buffer, e.opos.v) = e.start
         /\ e.val # <<>> => U16At(wres.w.buffer, e.start) = e.val[1]

\* an array of two elements with a non-empty string in an element
HeaderEquivalenceWitness ==
  /\ Returned
  /\ wres.used.definition.implicit
  /\ \E e \in ArrayEntries : e.n = 2
  /\ \E e \in StringEntries : e.path = "s" /\ e.val # <<>>

\* C6: empty array: for an array field whose value is an empty list or is
\* absent, write leaves the count and the offset placeholder at 0 and
\* writes nothing: the cursor after the field is the cursor before it.
EmptyArray ==
  Returned =>
    \A e \in ArrayEntries :
      e.n = 0 =>
        /\ e.stop = e.start
        /\ e.starts = <<>>
        /\ e.cpos.has => U16At(wres.w.buffer, e.cpos.v) = 0
        /\ e.opos.has => U16At(wres.w.buffer, e.opos.v) = 0

\* two elements, the array inside the first empty, inside the second absent
EmptyArrayWitness ==
  /\ Returned
  /\ call.data.has
  /\ call.data.v = ("arr" :> << ("inner" :> <<>>), EmptyMap >>)
  /\ \E e \in ArrayEntries : e.path = "inner" /\ e.n = 0 /\ e.cpos.has /\ e.opos.has

\* write got as far as encoding: the identifier resolved, to a valid opcode
Encodable ==
  /\ pc \in {"written", "parsed"}
  /\ wres.used.ok
  /\ wres.used.code.has
  /\ wres.used.code.v >= 0

\* C7: missing fields never make write fail: for every schema and every
\* record, whatever subset of its fields is absent, write completes without
\* error.
MissingFieldsTolerated == Encodable => wres.ok

\* the versions registered for the name of the call
Registered ==
  IF call.identifier.name \in DOMAIN messages
  THEN messages[call.identifier.name] ELSE EmptyMap

\* `used' is the resolution to the schema registered under (name, v)
Uses(used, v) ==
  /\ used.ok
  /\ used.name = call.identifier.name
  /\ used.version = Def(v)
  /\ used.definition = Registered[v]

Greatest(v) == v \in DOMAIN Registered /\ \A u \in DOMAIN Registered : u <= v

\* C8: version selection: write and parse called for a name that has
\* schemas, with version `*' or with none, use the schema of the greatest
\* version registered for the name.
VersionSelection ==
  (/\ pc \in {"written", "parsed"}
   /\ call.identifier.kind = "string"
   /\ DOMAIN Registered # {}
   /\ call.version \in {NoVersion, Def(Star)})
  => /\ \E v \in DOMAIN Registered : Greatest(v) /\ Uses(wres.used, v)
     /\ pc = "parsed" =>
          \E v \in DOMAIN Registered : Greatest(v) /\ Uses(pres.used, v)

\* a name with three versions, written and parsed without a version
VersionSelectionWitness ==
  /\ pc = "parsed"
  /\ call.identifier.kind = "string"
  /\ call.version = NoVersion
  /\ Cardinality(DOMAIN Registered) = 3
  /\ Uses(wres.used, 10)
  /\ Uses(pres.used, 10)

\* `used' is what an exact request for version v of the name must give
Exactly(used, v) ==
  IF v \in DOMAIN Registered THEN Uses(used, v) ELSE ~used.ok

\* C9: exact version: write and parse called for a name with a numeric
\* version v (0 included) use the schema registered under exactly
\* (name, v), and fail when there is none.
ExactVersion ==
  (/\ pc \in {"written", "parsed"}
   /\ call.identifier.kind = "string"
   /\ call.version.has
   /\ ~call.version.v.star)
  => /\ Exactly(wres.used, call.version.v.v)
     /\ pc = "parsed" => Exactly(pres.used, call.version.v.v)

\* C10: rebuilding load: after a load() that succeeded, whatever the
\* instance held before, the opcode map and the schema table are those a
\* load of the same input gives on a fresh instance.
LoadRebuilds ==
  lastLoad.pkg # "none" /\ ~lastLoad.threw =>
    /\ map = load(Fresh, Packages[lastLoad.pkg]).map
    /\ messages = load(Fresh, Packages[lastLoad.pkg]).messages

\* a load that succeeded on an instance holding the entries of another
LoadRebuildsWitness ==
  /\ lastLoad.pkg = "default"
  /\ ~lastLoad.threw
  /\ lastLoad.dirty
  /\ DOMAIN messages = {"PING", "VER"}

\* C11: missing opcode: a top-level write whose identifier resolves with no
\* opcode (a name the map does not list, a schema object) fails with an
\* Error and returns no buffer; when the opcode is valid and the length is
\* known, no write fails with that Error, whatever elements its arrays
\* hold: the nested writes need no opcode.
MissingOpcode ==
  /\ (pc \in {"written", "parsed"} /\ wres.used.ok /\ ~wres.used.code.has)
       => /\ ~wres.ok
          /\ wres.err = "Error"
          /\ wres.w.buffer = <<>>
          /\ wres.w.headers = 0
  /\ (Encodable /\ getLength(wres.used.definition, GivenData).ok)
       => wres.err # "Error"

\* a schema object is given to a top-level write
MissingOpcodeWitness ==
  /\ pc = "written"
  /\ call.identifier.kind = "array"
  /\ wres.used.ok
  /\ ~wres.used.code.has
  /\ ~wres.ok

\* the version resolveIdentifier was asked for has a schema under the name
HasSchema(name, version) ==
  /\ name \in DOMAIN messages
  /\ version.star \/ version.v \in DOMAIN messages[name]

\* `used' is a resolution of the name, with the code given
ResolvesTo(used, name, code) ==
  /\ used.ok
  /\ used.name = name
  /\ used.code = code
  /\ used.version.has
  /\ used.version.v \in DOMAIN messages[name]
  /\ used.definition = messages[name][used.version.v]

\* what resolveIdentifier(call.identifier, version) may return
Resolution(used, version) ==
  CASE call.identifier.kind = "array" ->
         /\ used.ok
         /\ used.definition = call.identifier.definition
         /\ ~used.code.has
         /\ ~used.version.has
    [] call.identifier.kind = "string" ->
         IF HasSchema(call.identifier.name, version)
         THEN ResolvesTo(used, call.identifier.name,
                         Get(map.name, call.identifier.name))
         ELSE ~used.ok /\ used.err = "Error"
    [] call.identifier.kind = "number" ->
         IF /\ call.identifier.code \in DOMAIN map.code
            /\ HasSchema(map.code[call.identifier.code], version)
         THEN ResolvesTo(used, map.code[call.identifier.code],
                         Def(call.identifier.code))
         ELSE ~used.ok /\ used.err = "Error"
    [] OTHER -> ~used.ok /\ used.err = "TypeError"

\* C12: resolution is all-or-nothing: resolveIdentifier fails for an
\* identifier that is no string, number or schema, for a code the map does
\* not list and for a (name, version) without schema; otherwise it returns
\* the name, the code (none for a name the map does not list) and the
\* schema registered under the returned name and version, or the schema
\* given.
AllOrNothing ==
  /\ pc \in {"written", "parsed"}
       => Resolution(wres.used, writeVersion(call.version))
  /\ pc = "parsed" => Resolution(pres.used, parseVersion(call.version))

\* a name with a schema and no opcode resolves
AllOrNothingWitness ==
  /\ pc = "written"
  /\ call.identifier.kind = "string"
  /\ call.identifier.name \notin DOMAIN map.name
  /\ wres.used.ok
  /\ ~wres.used.code.has
  /\ wres.used.definition = messages[call.identifier.name][3]

\* the token is a decimal integer: digits only, after an optional sign
IsDecimal(cs) ==
  /\ cs # <<>>
  /\ \A i \in 1..Len(cs) : cs[i] \in DOMAIN DigitVal \/ (i = 1 /\ cs[i] \in {"-", "+"})
  /\ \E i \in 1..Len(cs) : cs[i] \in DOMAIN DigitVal

\* the line has the form NAME DECIMAL_CODE
WellFormed(line) == line.ntok = 2 /\ IsDecimal(line.code)

\* the package of the last load() call, which returned
LoadReturned ==
  /\ lastLoad.pkg # "none"
  /\ ~lastLoad.threw
  /\ loaded

\* the last well-formed line of the map that satisfies P
LastLine(lines, P(_)) ==
  MaxOf({ i \in 1..Len(lines) : WellFormed(lines[i]) /\ P(lines[i]) })

\* the two directions of the opcode map hold what the well-formed lines say,
\* a later line winning over an earlier one, and nothing else
MapHolds(lines) ==
  /\ DOMAIN map.name = { lines[i].name : i \in { j \in 1..Len(lines) : WellFormed(lines[j]) } }
  /\ \A n \in DOMAIN map.name :
       LET Named(l) == l.name = n
       IN map.name[n] = parseInt(lines[LastLine(lines, Named)].code).v
  /\ DOMAIN map.code =
       { parseInt(lines[i].code).v : i \in { j \in 1..Len(lines) : WellFormed(lines[j]) } }
  /\ \A c \in DOMAIN map.code :
       LET Coded(l) == parseInt(l.code).v = c
       IN map.code[c] = lines[LastLine(lines, Coded)].name

\* C13: opcode map parsing: every line of the map that is not blank and not of
\* the form NAME DECIMAL_CODE produces a warning that names the map file and
\* the line, and adds no entry to either direction of the map; the
\* well-formed lines before and after it are loaded.
MapParsing ==
  LoadReturned =>
    /\ \A i \in 1..Len(Packages[lastLoad.pkg].map) :
         (Packages[lastLoad.pkg].map[i].ntok # 0 /\ ~WellFormed(Packages[lastLoad.pkg].map[i]))
           => \E k \in 1..Len(warnings) :
                warnings[k].file = "protocol.map" /\ warnings[k].line = i
    /\ MapHolds(Packages[lastLoad.pkg].map)

\* the files of the package whose name has the form NAME.VERSION.def
ValidFiles(pkg) == { i \in 1..Len(pkg.files) : pkg.files[i].ok }

\* C14: definition-file errors are warnings only: whatever the lines of the
\* definition files (malformed, nested too deep, deeper after a scalar field
\* or as the first line, explicit count/offset) and whatever the file names,
\* a load() of a readable package does not abort: it stores a schema for
\* every validly named file and returns true.
DefinitionErrorsWarn ==
  (/\ lastLoad.pkg # "none"
   /\ Packages[lastLoad.pkg].hasMap
   /\ Packages[lastLoad.pkg].hasDefs)
    => /\ ~lastLoad.threw
       /\ loaded
       /\ \A i \in ValidFiles(Packages[lastLoad.pkg]) :
            /\ Packages[lastLoad.pkg].files[i].name \in DOMAIN messages
            /\ parseInt(Packages[lastLoad.pkg].files[i].ver).v
                 \in DOMAIN messages[Packages[lastLoad.pkg].files[i].name]

\* the record parse returned, before the caller touched the buffer
RecordParsed == parseReader(pres.used, Readable(wres.w.buffer, 4)).data

\* C15: decoded records own their data: after parse returns, changing a byte
\* of the input buffer changes no value in the record returned; a bytes
\* field is a copy of the input, not a view of it.
OwnsData == pc = "changed" => pres.data = RecordParsed

\* C16: parse terminates on every input buffer: the loop over the elements of
\* an array always reaches next = 0 or raises an error, also when a next
\* pointer refers to the same or an earlier element.
Terminates == pc = "parsed" => ~pres.r.diverged

\* the arrays of the record returned, at any depth: `fields' are the entries
\* of the schema the record was parsed with
RECURSIVE ArraysOf(_, _, _)
ArraysOf(fields, i, data) ==
  IF i > Len(fields) THEN {}
  ELSE ArraysOf(fields, i + 1, data)
       \cup (IF fields[i].key \notin DOMAIN data \/ ~IsGroup(fields[i]) THEN {}
             ELSE IF fields[i].type = "object"
             THEN ArraysOf(fields[i].sub, 1, data[fields[i].key])
             ELSE { data[fields[i].key] }
                  \cup UNION { IF data[fields[i].key][k] = Hole THEN {}
                               ELSE ArraysOf(fields[i].sub, 1, data[fields[i].key][k]) :
                               k \in 1..Len(data[fields[i].key]) })

\* C17: array decoding follows the chain, not the count: the array decoded
\* holds the elements reached along the pointer chain and nothing else; a
\* count that differs from the length of the chain neither truncates the
\* array nor pads it with empty slots.
FollowsChain ==
  (pc = "parsed" /\ pres.ok) =>
    \A a \in ArraysOf(pres.used.definition.fields, 1, pres.data) :
      \A k \in 1..Len(a) : a[k] # Hole

\* the reads of the decoder for which an offset or a pointer was recorded
Reads(kind) ==
  { k \in 1..Len(pres.r.reads) : pres.r.reads[k].kind = kind }

\* the reads that found the cursor elsewhere
Drifted ==
  { k \in Reads("value") \cup Reads("element") :
      pres.r.reads[k].cursor # pres.r.reads[k].want }

\* the warnings of the decoder about an offset mismatch
Mismatches ==
  { k \in 1..Len(pres.r.warnings) : pres.r.warnings[k].w = "offset mismatch" }

\* C18: offset drift is tolerated: every string or bytes value whose offset
\* was read from the wire, and every array element reached through a
\* pointer, is read starting at that offset or pointer, wherever the cursor
\* was; a cursor that disagrees only produces a warning: the read takes
\* place, and the only error parse raises on its own account is the one of
\* the self-pointer check.
DriftTolerated ==
  pc = "parsed" =>
    /\ \A k \in Reads("value") \cup Reads("element") :
         pres.r.reads[k].at = pres.r.reads[k].want
    /\ Cardinality(Mismatches) = Cardinality(Drifted)
    /\ pres.r.err \in {"", "RangeError", "Error"}
    /\ pres.r.err = "Error" => pres.r.errPath # ""

\* a string is read at its recorded offset, away from the cursor, and parse
\* returns
DriftToleratedWitness ==
  /\ pc = "parsed"
  /\ pres.ok
  /\ \E k \in Drifted : pres.r.reads[k].kind = "value"
  /\ \E k \in Drifted : pres.r.reads[k].kind = "element"

\* the words the decoder read as an element's own position and that are not
\* the position they were read at
WrongHere ==
  { k \in Reads("here") : pres.r.reads[k].here # pres.r.reads[k].at }

\* C19: strict self-pointer check on decode: whenever the first uint16 of an
\* array element differs from the offset at which the element starts, parse
\* fails with an Error that names the field path, and returns no record; a
\* record returned holds no element with a wrong word.
StrictHere ==
  pc = "parsed" =>
    /\ \A k \in WrongHere :
         /\ ~pres.ok
         /\ pres.err = "Error"
         /\ pres.r.errPath = pres.r.reads[k].path
    /\ pres.ok => WrongHere = {}

\* the second element of an array starts with a word that is not its offset
StrictHereWitness ==
  /\ pc = "parsed"
  /\ ~pres.ok
  /\ \E k \in WrongHere : \E j \in Reads("here") : j < k

\* the meta entries the declared fields call for, in declaration order, keyed
\* by the dotted path from the enclosing root or array group; an object adds
\* its name to the path of the fields declared in it
RECURSIVE MetaOf(_, _, _)
MetaOf(fields, i, prefix) ==
  IF i > Len(fields) THEN <<>>
  ELSE (CASE fields[i].type = "array" ->
               << <<prefix \o fields[i].key, "count">>,
                  <<prefix \o fields[i].key, "offset">> >>
          [] fields[i].type = "bytes" ->
               << <<prefix \o fields[i].key, "offset">>,
                  <<prefix \o fields[i].key, "count">> >>
          [] fields[i].type = "string" ->
               << <<prefix \o fields[i].key, "offset">> >>
          [] fields[i].type = "object" ->
               MetaOf(fields[i].sub, 1, prefix \o fields[i].key \o ".")
          [] OTHER -> <<>>)
       \o MetaOf(fields, i + 1, prefix)

\* the group's entries begin with exactly `want' and hold no other meta entry
BeginsWith(fields, want) ==
  /\ Len(fields) >= Len(want)
  /\ \A i \in 1..Len(want) :
       <<fields[i].key, fields[i].type>> = want[i]
  /\ \A i \in (Len(want) + 1)..Len(fields) :
       fields[i].type \notin {"count", "offset"}

\* the stored group and the groups in it carry the meta entries they should:
\* a root or an array those of its fields, an object none
RECURSIVE MetaInserted(_, _)
MetaInserted(fields, type) ==
  /\ BeginsWith(fields, IF type = "object" THEN <<>> ELSE MetaOf(fields, 1, ""))
  /\ \A i \in 1..Len(fields) :
       IsGroup(fields[i]) => MetaInserted(fields[i].sub, fields[i].type)

\* C20: meta insertion: in implicit-meta mode every stored group that is the
\* root or an array begins with its meta entries, before its ordinary
\* fields: one block for each array, bytes or string field declared in the
\* group or reachable from it through objects only, in declaration order
\* (array: count then offset, bytes: offset then count, string: offset),
\* keyed by the dotted path from the group; objects carry none.  The schema
\* table is looked at when no call is under way.
MetaInsertion ==
  pc = "idle" =>
    \A name \in DOMAIN messages :
      \A version \in DOMAIN messages[name] :
        messages[name][version].implicit
          => MetaInserted(messages[name][version].fields, "root")

\* a schema is stored with a bytes field, and one with a string and an array
\* in an object
MetaInsertionWitness ==
  /\ "BYT" \in DOMAIN messages
  /\ "OBJ" \in DOMAIN messages
  /\ messages["BYT"][3].implicit
  /\ messages["OBJ"][3].implicit
  /\ MetaOf(messages["BYT"][3].fields, 1, "")
       = << <<"buf", "offset">>, <<"buf", "count">> >>
  /\ MetaOf(messages["OBJ"][3].fields, 1, "")
       = << <<"obj.s", "offset">>, <<"obj.arr", "count">>, <<"obj.arr", "offset">> >>

\* the field lines of a definition file, as <<key, type>>, in file order
RECURSIVE FieldLines(_, _)
FieldLines(lines, i) ==
  IF i > Len(lines) THEN <<>>
  ELSE (IF lines[i].kind = "field" THEN << <<lines[i].key, lines[i].type>> >>
        ELSE <<>>)
       \o FieldLines(lines, i + 1)

\* the entries of a stored schema as <<key, type>>, each group followed by
\* the entries in it
RECURSIVE Preorder(_, _)
Preorder(fields, i) ==
  IF i > Len(fields) THEN <<>>
  ELSE << <<fields[i].key, fields[i].type>> >>
       \o Preorder(fields[i].sub, 1)
       \o Preorder(fields, i + 1)

\* the file holds a count or offset line
HasExplicitMeta(file) ==
  \E i \in 1..Len(file.lines) :
    file.lines[i].kind = "field" /\ file.lines[i].type \in {"count", "offset"}

\* the files of the package last loaded that are stored and hold such a line
ExplicitFiles ==
  { i \in ValidFiles(Packages[lastLoad.pkg]) :
      HasExplicitMeta(Packages[lastLoad.pkg].files[i]) }

\* the diagnostics about explicit meta lines emitted for the file
ExplicitWarnings(fname) ==
  { k \in 1..Len(warnings) :
      warnings[k].w = "disabling implicit metatypes" /\ warnings[k].file = fname }

\* C21: explicit meta disables implicit meta for the whole schema: when a
\* definition file holds a count or offset line, the schema stored for it
\* holds the declared lines and nothing else, at every nesting level and in
\* the order written (no entry is inserted, also not for a string declared
\* before the explicit line), and the diagnostic is emitted once for the file.
ExplicitMeta ==
  (LoadReturned /\ pc = "idle") =>
    \A i \in ExplicitFiles :
      /\ Preorder(messages[Packages[lastLoad.pkg].files[i].name]
                          [parseInt(Packages[lastLoad.pkg].files[i].ver).v].fields, 1)
           = FieldLines(Packages[lastLoad.pkg].files[i].lines, 1)
      /\ Cardinality(ExplicitWarnings(Packages[lastLoad.pkg].files[i].fname)) = 1

\* a file with a string before its first offset line, which is in an array,
\* is stored, and so is one with two explicit lines
ExplicitMetaWitness ==
  /\ LoadReturned
  /\ Cardinality(ExplicitFiles) = 2
  /\ Preorder(messages["LATE"][3].fields, 1)
       = << <<"s", "string">>, <<"arr", "array">>, <<"t", "offset">>,
            <<"t", "string">>, <<"b", "byte">> >>

\* the definition parser after the first k lines of the file
AfterLines(file, k) ==
  readDefLines(NewDefinition(<<>>), SubSeq(file.lines, 1, k), file.fname, 1)

\* the field appended last to the current group
LastField(d) ==
  NodeAt(d.tree, d.top).fields[Len(NodeAt(d.tree, d.top).fields)]

\* the parser went from `before' to `after' on a line with `depth' dashes as
\* the nesting rules say
Tracked(before, after, line, k, fname) ==
  /\ ~after.threw
  /\ after.level = Len(after.top)
  /\ IsGroupNode(NodeAt(after.tree, after.top))
  /\ LastField(after).key = line.key
  /\ LastField(after).type = line.type
  /\ line.depth > before.level =>
       /\ after.top = Append(before.top, Len(NodeAt(before.tree, before.top).fields))
       /\ line.depth > before.level + 1 =>
            \E w \in 1..Len(after.warnings) :
              after.warnings[w] = Warning("array nesting too deep", fname, k)
  /\ line.depth < before.level => after.top = SubSeq(before.top, 1, line.depth)
  /\ line.depth = before.level => after.top = before.top

\* C22: nesting tracking in the definition parser: after every processed
\* line the tracked level is the nesting depth of the current group; a line
\* with more dashes than the level is appended inside the field appended
\* last to the current group, one level deeper (with a warning when a level
\* is skipped); a line with fewer dashes is appended to the ancestor at that
\* depth; a line at the same depth is appended to the current group.
NestingTracked ==
  (lastLoad.pkg # "none" /\ Packages[lastLoad.pkg].hasDefs) =>
    \A i \in ValidFiles(Packages[lastLoad.pkg]) :
      \A k \in 1..Len(Packages[lastLoad.pkg].files[i].lines) :
        (/\ Packages[lastLoad.pkg].files[i].lines[k].kind = "field"
         /\ ~AfterLines(Packages[lastLoad.pkg].files[i], k - 1).threw)
          => Tracked(AfterLines(Packages[lastLoad.pkg].files[i], k - 1),
                     AfterLines(Packages[lastLoad.pkg].files[i], k),
                     Packages[lastLoad.pkg].files[i].lines[k], k,
                     Packages[lastLoad.pkg].files[i].fname)

\* C23: the opcode map is a bijection after load: whatever the map file
\* holds (a name listed twice, a code listed under two names), the code of
\* every name maps back to the name and the name of every code maps back to
\* the code.
MapBijection ==
  loaded =>
    /\ \A n \in DOMAIN map.name :
         /\ map.name[n] \in DOMAIN map.code
         /\ map.code[map.name[n]] = n
    /\ \A c \in DOMAIN map.code :
         /\ map.code[c] \in DOMAIN map.name
         /\ map.name[map.code[c]] = c

\* the position the stream was at before the value was written
StreamStart == Len(wres.w.buffer) - 4

\* the 16-bit half h of a value, modulo 2^16, as two little-endian bytes
HalfLE(h) == << ((h + 65536) % 65536) % 256, ((h + 65536) % 65536) \div 256 >>

\* C24: 32-bit width tolerance of the writer: for every integer n with
\* -2^31 <= n <= 2^32 - 1, Writeable.int32(n) and Writeable.uint32(n)
\* succeed, write the four little-endian bytes of n mod 2^32, and advance
\* the cursor by 4.
Width32 ==
  pc = "streamed" =>
    /\ wres.w.err = ""
    /\ wres.w.position = StreamStart + 4
    /\ SubSeq(wres.w.buffer, StreamStart + 1, StreamStart + 4)
         = HalfLE(call.data.v.lo) \o HalfLE(call.data.v.hi)
    /\ \A i \in 1..StreamStart : wres.w.buffer[i] = 0

\* 2^32 - 1 is written as int32 and -2^31 as uint32
Width32Witness ==
  /\ pc = "streamed"
  /\ wres.w.err = ""
  /\ \/ call.identifier.name = "int32" /\ call.data.v = Wide(65535, 65535)
     \/ call.identifier.name = "uint32" /\ call.data.v = Wide(-32768, 0)
  /\ StreamStart = 2

\* the entries the encoder logged for strings, bytes and arrays, in order
VarEntries ==
  SelectSeq(wres.w.log, LAMBDA e : e.kind \in {"string", "bytes", "array"})

\* the position p holds a placeholder of the call that found the writer at
\* `base': it is in the call's part of the buffer, before any element that
\* begins in it
OwnPlaceholder(p, base) ==
  /\ p.has
  /\ p.v >= base
  /\ \A q \in ElementStarts : ~(base <= q /\ q <= p.v)

\* the offsets the decoder looked up for the values it read, in order
WantsRead ==
  [k \in 1..Len(SelectSeq(pres.r.reads, LAMBDA e : e.kind = "value")) |->
     SelectSeq(pres.r.reads, LAMBDA e : e.kind = "value")[k].want]

\* the positions at which the encoder wrote the strings and bytes, in order
StartsWritten ==
  [k \in 1..Len(SelectSeq(wres.w.log, LAMBDA e : e.kind \in {"string", "bytes"})) |->
     SelectSeq(wres.w.log, LAMBDA e : e.kind \in {"string", "bytes"})[k].start]

\* C25: per-call count/offset tables are isolated: a field in an array
\* element patches (on write) and consults (on parse) the placeholders in
\* its own element only, also when the enclosing group has a field with the
\* same key; the fields of an object use the tables of the enclosing group,
\* under their dotted path.
TablesIsolated ==
  /\ (Returned /\ wres.used.definition.implicit) =>
       \A k \in 1..Len(VarEntries) :
         /\ OwnPlaceholder(VarEntries[k].opos, VarEntries[k].base)
         /\ VarEntries[k].kind # "string"
              => OwnPlaceholder(VarEntries[k].cpos, VarEntries[k].base)
         /\ VarEntries[k].kind # "array"
              => U16At(wres.w.buffer, VarEntries[k].opos.v) = VarEntries[k].start
  /\ (/\ pc = "parsed"
      /\ pres.ok
      /\ pres.used.definition = wres.used.definition
      /\ wres.used.definition.implicit
      /\ call.data.has
      /\ call.data.v \in Conforming(wres.used.definition))
       => WantsRead = StartsWritten

\* a record with a bytes field in two array elements and a bytes field of
\* the same key after the array is written and parsed
TablesIsolatedWitness ==
  /\ pc = "parsed"
  /\ pres.ok
  /\ wres.used.name = "SAME"
  /\ Len(WantsRead) = 3
  /\ \E k \in 1..Len(VarEntries) :
       /\ VarEntries[k].kind = "bytes"
       /\ VarEntries[k].base = 4
       /\ VarEntries[k].opos.v < VarEntries[k].start
       /\ \E q \in ElementStarts : VarEntries[k].opos.v < q /\ q < VarEntries[k].start

\* the registry is what a load() of package p that returns true builds
ResultOf(p) ==
  /\ ~load(Fresh, Packages[p]).threw
  /\ map = load(Fresh, Packages[p]).map
  /\ messages = load(Fresh, Packages[p]).messages

\* C26: a failing load leaves a usable registry: whenever the loaded flag is
\* true, the opcode map and the schema table hold the complete result of a
\* load() call that returned true, the most recent one; a load() that
\* throws after a successful one does not leave the instance marked as
\* loaded with an emptied or partly filled registry.
UsableRegistry ==
  loaded =>
    /\ \E p \in DOMAIN Packages : ResultOf(p)
    /\ ~lastLoad.threw => ResultOf(lastLoad.pkg)

=============================================================================
